---- MODULE Spec2Model ----
(***************************************************************************)
(* A model of the OIL compiler front end (src/src/parser.rs: lexer and     *)
(* Pratt parser) and of its NASM back end (src/src/nasm.rs: frame layout   *)
(* and the call sequence).                                                 *)
(*                                                                         *)
(* A character is a one-character string; a source text is a sequence of   *)
(* characters.  Byte offsets are kept apart from character indices because *)
(* the lexer slices the source by byte offset.                             *)
(***************************************************************************)
EXTENDS Integers, Sequences, FiniteSets, TLC

VARIABLES
    string,     \* Parser.string: the source text
    chars,      \* Parser.chars: index (1-based) of the next character
    began,      \* the value of chars when the last call began
    tokens,     \* the tokens next_token has returned so far
    last,       \* what the last call of the operation under study returned
    machine,    \* where the operation under study is: called, or returned
    bytecode,   \* the ByteCode handed to the code generator
    listing,    \* Nasm.text: the listing emitted so far
    cpu         \* the x86-64 machine running the listing

vars == <<string, chars, began, tokens, last, machine, bytecode, listing, cpu>>

\* The code generator before it is given anything.
NasmOff ==
    /\ bytecode = <<>>
    /\ listing = <<>>
    /\ cpu = <<>>

----------------------------------------------------------------------------
(* Bounds of the model.                                                    *)

MaxSrcLen == 4

\* A value bound to a name once, as a local of the source is: f is a
\* function on a one-element set and the result is f at that element.
Bind(f) == f[CHOOSE v \in DOMAIN f : TRUE]

----------------------------------------------------------------------------
(* Characters and strings (Rust str: UTF-8, sliced by byte offset).        *)

NUL == "NUL"

AsciiLower ==
    {"a", "b", "c", "d", "e", "f", "g", "h", "i", "j", "k", "l", "m",
     "n", "o", "p", "q", "r", "s", "t", "u", "v", "w", "x", "y", "z"}

AsciiUpper ==
    {"A", "B", "C", "D", "E", "F", "G", "H", "I", "J", "K", "L", "M",
     "N", "O", "P", "Q", "R", "S", "T", "U", "V", "W", "X", "Y", "Z"}

AsciiDigit == {"0", "1", "2", "3", "4", "5", "6", "7", "8", "9"}

is_ascii_whitespace(ch) == ch \in {" ", "\t", "\n", "\f", "\r"}

is_ascii_alphabetic(ch) == ch \in AsciiLower \cup AsciiUpper

is_ascii_digit(ch) == ch \in AsciiDigit

\* The characters the operator branch of next_token recognises.
OperatorChars ==
    {"+", "-", "*", "/", "%", "=", "!", ">", "<", "(", ")", "{", "}",
     "[", "]", "#", "@", ";", ":", ","}

\* Number of bytes of a character's UTF-8 encoding.  The non-ASCII
\* characters of the model are two-byte characters, written by code point.
Utf8Len(ch) == IF ch \in {"U+00E9", "U+00DF"} THEN 2 ELSE 1

\* The number of bytes of the first n characters of s: the bytes are the
\* pairs of a character's index and a byte's index in its encoding.
ByteLenUpTo(s, n) ==
    Cardinality({b \in (1..n) \X (1..2) : b[2] <= Utf8Len(s[b[1]])})

\* str::len: the length in bytes.
ByteLen(s) == ByteLenUpTo(s, Len(s))

\* char_indices: the byte offset of the i-th character (1-based); the
\* offset of i = Len(s) + 1 is the length in bytes.
ByteOffset(s, i) == ByteLenUpTo(s, i - 1)

\* The index of the character that starts at byte offset off (Len(s) + 1
\* for the length in bytes), or 0 when off is no character boundary.  A
\* character's offset is its index less one, plus one for every two-byte
\* character before it.
CharAt(s, off) ==
    LET wide == ByteLen(s) - Len(s)
        found == {i \in (off + 1 - wide)..(off + 1) :
                    i >= 1 /\ i <= Len(s) + 1 /\ ByteOffset(s, i) = off}
    IN  IF found = {} THEN 0 ELSE CHOOSE i \in found : TRUE

\* str::is_char_boundary
is_char_boundary(s, off) == CharAt(s, off) # 0

\* &s[from..to]: the characters of s whose bytes lie in [from, to); panics
\* unless both ends are character boundaries.
SliceExclusive(s, from, to) ==
    IF from <= to /\ is_char_boundary(s, from) /\ is_char_boundary(s, to)
    THEN [ok |-> TRUE, text |-> SubSeq(s, CharAt(s, from), CharAt(s, to) - 1)]
    ELSE [ok |-> FALSE, text |-> <<>>]

\* &s[from..=to]
SliceInclusive(s, from, to) == SliceExclusive(s, from, to + 1)

\* String::truncate: no effect when new_len is beyond the length, and a
\* panic when new_len is inside a character.
truncate(s, new_len) ==
    IF new_len > ByteLen(s) THEN [ok |-> TRUE, text |-> s]
    ELSE SliceExclusive(s, 0, new_len)

----------------------------------------------------------------------------
(* Tokens.  A kind is [k, v]: v is the payload of Number (the decimal      *)
(* digits of the value, without leading zeros) and of Str (the decoded     *)
(* characters), and empty otherwise.                                       *)

Kind(k) == [k |-> k, v |-> <<>>]

Token(text, kind) == [text |-> text, kind |-> kind]

NoToken == Token(<<>>, Kind("None"))

\* The results of next_token: Ok(Some(token)), Ok(None), Err(e), or a panic.
Some(token, c) == [tag |-> "Some", token |-> token, err |-> "", ch |-> "", chars |-> c]

None(c) == [tag |-> "None", token |-> NoToken, err |-> "", ch |-> "", chars |-> c]

Err(e, ch, c) == [tag |-> "Err", token |-> NoToken, err |-> e, ch |-> ch, chars |-> c]

Panic(c) == [tag |-> "Panic", token |-> NoToken, err |-> "", ch |-> "", chars |-> c]

\* u64::from_str on a text of digits: the value as its decimal digits
\* without leading zeros, or an overflow when it exceeds 2^64 - 1.
U64MaxDigits ==
    <<"1", "8", "4", "4", "6", "7", "4", "4", "0", "7",
      "3", "7", "0", "9", "5", "5", "1", "6", "1", "5">>

RECURSIVE StripZeros(_)
StripZeros(d) ==
    IF Len(d) > 1 /\ Head(d) = "0" THEN StripZeros(Tail(d)) ELSE d

DigitValue(ch) ==
    CHOOSE n \in 0..9 : <<"0", "1", "2", "3", "4", "5", "6", "7", "8", "9">>[n + 1] = ch

RECURSIVE DigitsGreater(_, _)
DigitsGreater(a, b) ==
    IF a = <<>> THEN FALSE
    ELSE IF DigitValue(Head(a)) # DigitValue(Head(b))
         THEN DigitValue(Head(a)) > DigitValue(Head(b))
         ELSE DigitsGreater(Tail(a), Tail(b))

parse_u64(text) ==
    LET d == StripZeros(text)
    IN  IF Len(d) > Len(U64MaxDigits)
           \/ (Len(d) = Len(U64MaxDigits) /\ DigitsGreater(d, U64MaxDigits))
        THEN [ok |-> FALSE, v |-> <<>>]
        ELSE [ok |-> TRUE, v |-> d]

----------------------------------------------------------------------------
(* parse_string: escape decoding with a copy-on-write value.               *)

unescape(ch) ==
    CASE ch = "r" -> "\r"
      [] ch = "n" -> "\n"
      [] ch = "t" -> "\t"
      [] ch = "0" -> NUL
      [] OTHER -> ch

\* The loop of parse_string: i is the index of the character iter.next()
\* returns next, value the Cow ([owned, text]).
RECURSIVE parse_string_loop(_, _, _)
parse_string_loop(str, value, i) ==
    IF i > Len(str) THEN [ok |-> TRUE, text |-> value.text]
    ELSE IF str[i] # "\\"
    THEN parse_string_loop(str,
             IF value.owned
             THEN [value EXCEPT !.text = Append(@, str[i])]
             ELSE value,
             i + 1)
    ELSE LET truncated == truncate(value.text, ByteOffset(str, i))
         IN  IF ~truncated.ok \/ i + 1 > Len(str)
             THEN [ok |-> FALSE, text |-> <<>>]
             ELSE parse_string_loop(str,
                      [owned |-> TRUE,
                       text |-> Append(truncated.text, unescape(str[i + 1]))],
                      i + 2)

\* parse_string pushing every plain character, borrowed value or not.
RECURSIVE parse_string_loop_pushing(_, _, _)
parse_string_loop_pushing(str, value, i) ==
    IF i > Len(str) THEN [ok |-> TRUE, text |-> value.text]
    ELSE IF str[i] # "\\"
    THEN parse_string_loop_pushing(str, [value EXCEPT !.text = Append(@, str[i])], i + 1)
    ELSE LET truncated == truncate(value.text, ByteOffset(str, i))
         IN  IF ~truncated.ok \/ i + 1 > Len(str)
             THEN [ok |-> FALSE, text |-> <<>>]
             ELSE parse_string_loop_pushing(str,
                      [owned |-> TRUE,
                       text |-> Append(truncated.text, unescape(str[i + 1]))],
                      i + 2)

parse_string_pushing(str) ==
    parse_string_loop_pushing(str, [owned |-> FALSE, text |-> str], 1)

parse_string(str) == parse_string_loop(str, [owned |-> FALSE, text |-> str], 1)

----------------------------------------------------------------------------
(* The lexer.  A cursor is [chars, pos]: chars the index of the next       *)
(* character of the Peekable<CharIndices>, pos the local byte offset pos.  *)

peeking_char(s, cur, set) == cur.chars <= Len(s) /\ s[cur.chars] \in set

advance(s, cur) ==
    IF cur.chars <= Len(s)
    THEN [chars |-> cur.chars + 1, pos |-> ByteOffset(s, cur.chars)]
    ELSE cur

\* while self.peeking_char(|ch| ch in set) { self.advance(&mut pos); }
RECURSIVE advance_while(_, _, _)
advance_while(s, cur, set) ==
    IF peeking_char(s, cur, set) THEN advance_while(s, advance(s, cur), set) ELSE cur

IdentChars == AsciiLower \cup AsciiUpper \cup AsciiDigit \cup {"_"}

keyword_kind(text) ==
    CASE text = <<"f", "n">> -> Kind("Function")
      [] text = <<"l", "e", "t">> -> Kind("Let")
      [] text = <<"i", "f">> -> Kind("If")
      [] text = <<"e", "l", "s", "e">> -> Kind("Else")
      [] text = <<"w", "h", "i", "l", "e">> -> Kind("While")
      [] text = <<"t", "r", "u", "e">> -> Kind("True")
      [] text = <<"f", "a", "l", "s", "e">> -> Kind("False")
      [] OTHER -> Kind("Ident")

\* The loop of the string branch with an escape that consumes only itself.
RECURSIVE string_loop_short_escape(_, _)
string_loop_short_escape(s, cur) ==
    IF peeking_char(s, cur, {"\""}) THEN [unclosed |-> FALSE, cur |-> cur]
    ELSE LET next == advance(s, cur)
         IN  IF next.chars > Len(s)
             THEN [unclosed |-> TRUE, cur |-> next]
             ELSE string_loop_short_escape(s, next)

\* The loop of the string branch: unclosed is TRUE when the end of input is
\* met before the closing quote.
RECURSIVE string_loop(_, _)
string_loop(s, cur) ==
    IF peeking_char(s, cur, {"\""}) THEN [unclosed |-> FALSE, cur |-> cur]
    ELSE LET escaped == IF peeking_char(s, cur, {"\\"}) THEN advance(s, cur) ELSE cur
             next == advance(s, escaped)
         IN  IF next.chars > Len(s)
             THEN [unclosed |-> TRUE, cur |-> next]
             ELSE string_loop(s, next)

\* The operator branch: the kind of the token starting with ch, and the
\* cursor after it; cur is the cursor after ch.
operator_kind(s, ch, cur) ==
    LET one(k) == [known |-> TRUE, kind |-> Kind(k), cur |-> cur]
        two(k2, k1) ==
            IF peeking_char(s, cur, {"="})
            THEN [known |-> TRUE, kind |-> Kind(k2), cur |-> advance(s, cur)]
            ELSE [known |-> TRUE, kind |-> Kind(k1), cur |-> cur]
    IN  CASE ch = "+" -> one("Add")
          [] ch = "-" -> one("Sub")
          [] ch = "*" -> one("Mul")
          [] ch = "/" -> one("Div")
          [] ch = "%" -> one("Mod")
          [] ch = "=" -> two("Equals", "Assign")
          [] ch = "!" -> two("NotEquals", "Not")
          [] ch = ">" -> two("GreaterOrEqual", "Greater")
          [] ch = "<" -> two("LessOrEqual", "Less")
          [] ch = "(" -> one("LParen")
          [] ch = ")" -> one("RParen")
          [] ch = "{" -> one("LCurly")
          [] ch = "}" -> one("RCurly")
          [] ch = "[" -> one("LSquare")
          [] ch = "]" -> one("RSquare")
          [] ch = "#" -> one("Hash")
          [] ch = "@" -> one("AtSymbol")
          [] ch = ";" -> one("SemiColon")
          [] ch = ":" -> one("Colon")
          [] ch = "," -> one("Comma")
          [] OTHER -> [known |-> FALSE, kind |-> Kind("None"), cur |-> cur]

\* Parser::next_token, from the lexer position c.
RECURSIVE next_token(_, _)
next_token(s, c) ==
    IF c > Len(s) THEN None(c) ELSE
    Bind([cur0 \in {[chars |-> c, pos |-> ByteOffset(s, c)]} |->
    IF is_ascii_whitespace(s[c])
    THEN next_token(s, advance_while(s, cur0, {" ", "\t", "\n", "\f", "\r"}).chars)
    ELSE IF is_ascii_alphabetic(s[c]) \/ s[c] = "_"
    THEN Bind([cur \in {advance_while(s, cur0, IdentChars)} |->
         Bind([text \in {SliceInclusive(s, cur0.pos, cur.pos)} |->
         IF ~text.ok THEN Panic(cur.chars)
         ELSE Some(Token(text.text, keyword_kind(text.text)), cur.chars)])])
    ELSE IF is_ascii_digit(s[c])
    THEN Bind([cur \in {advance_while(s, cur0, AsciiDigit)} |->
         Bind([text \in {SliceInclusive(s, cur0.pos, cur.pos)} |->
         IF ~text.ok THEN Panic(cur.chars) ELSE
         Bind([value \in {parse_u64(text.text)} |->
         IF ~value.ok THEN Err("ParseIntError", "", cur.chars)
         ELSE Some(Token(text.text, [k |-> "Number", v |-> value.v]), cur.chars)])])])
    ELSE IF s[c] = "\""
    THEN Bind([body \in {string_loop(s, advance(s, cur0))} |->
         IF body.unclosed THEN Err("UnclosedString", "", body.cur.chars) ELSE
         Bind([cur \in {advance(s, body.cur)} |->
         Bind([text \in {SliceInclusive(s, cur0.pos, cur.pos)} |->
         IF ~text.ok THEN Panic(cur.chars) ELSE
         Bind([inner \in {SliceExclusive(text.text, 1, ByteLen(text.text) - 1)} |->
         IF ~inner.ok THEN Panic(cur.chars) ELSE
         Bind([decoded \in {parse_string(inner.text)} |->
         IF ~decoded.ok THEN Panic(cur.chars)
         ELSE Some(Token(text.text, [k |-> "Str", v |-> decoded.text]), cur.chars)])])])])])
    ELSE Bind([cur \in {advance(s, cur0)} |->
         Bind([text \in {SliceInclusive(s, cur0.pos, cur.pos)} |->
         IF ~text.ok THEN Panic(cur.chars) ELSE
         Bind([oper \in {operator_kind(s, s[c], cur)} |->
         IF ~oper.known THEN Err("InvalidChar", s[c], cur.chars)
         ELSE Some(Token(text.text, oper.kind), oper.cur.chars)])])])])

----------------------------------------------------------------------------
(* The lexer driven to the end of the input: one next_token per step.      *)

RECURSIVE SeqsUpTo(_, _)
SeqsUpTo(S, n) ==
    IF n = 0 THEN {<<>>}
    ELSE LET shorter == SeqsUpTo(S, n - 1)
         IN  shorter \cup {Append(q, x) : q \in shorter, x \in S}

NoMachine == [pc |-> "off"]

\* Before the first call.
Start == [tag |-> "Start", token |-> NoToken, err |-> "", ch |-> "", chars |-> 1]

\* The characters the sources are drawn from: white space, two letters
\* (so that identifiers and the keyword `if` occur), a digit, the quote and
\* the escape, two operator characters with their two-character forms, an
\* invalid ASCII character and a non-ASCII one.
InitLex ==
    LET LexAlphabet == {" ", "i", "f", "1", "\"", "\\", "=", "!", "$", "U+00E9"}
    IN  /\ string \in SeqsUpTo(LexAlphabet, MaxSrcLen)
        /\ chars = 1
        /\ began = 1
        /\ tokens = <<>>
        /\ last = Start
        /\ machine = NoMachine
        /\ NasmOff

\* One call of next_token; the lexer is called again after Ok(Some(token)).
NextToken ==
    /\ last.tag \in {"Start", "Some"}
    /\ \E r \in {next_token(string, chars)} :
        /\ last' = r
        /\ chars' = r.chars
        /\ tokens' = IF r.tag = "Some" THEN Append(tokens, r.token) ELSE tokens
    /\ began' = chars
    /\ UNCHANGED <<string, machine>>
    /\ UNCHANGED <<bytecode, listing, cpu>>

SpecLex == InitLex /\ [][NextToken]_vars

----------------------------------------------------------------------------
(* String literals on their own: the source is one quoted body.            *)

MaxBodyLen == 5

\* The characters of the bodies: the escape, the quote, an escape letter
\* with a meaning, an ordinary letter and a two-byte character.
InitStr ==
    LET StrAlphabet == {"\\", "\"", "n", "a", "U+00E9"}
    IN  /\ string \in {<<"\"">> \o body \o <<"\"">> :
                            body \in SeqsUpTo(StrAlphabet, MaxBodyLen)}
        /\ chars = 1
        /\ began = 1
        /\ tokens = <<>>
        /\ last = Start
        /\ machine = NoMachine
        /\ NasmOff

SpecStr == InitStr /\ [][NextToken]_vars

----------------------------------------------------------------------------
(* Claims about the lexer.                                                 *)

\* Lexing a text on its own, to the end: the tokens, or a failure.
RECURSIVE LexAll(_, _, _)
LexAll(s, c, acc) ==
    Bind([r \in {next_token(s, c)} |->
    CASE r.tag = "Some" -> LexAll(s, r.chars, Append(acc, r.token))
      [] r.tag = "None" -> [ok |-> TRUE, tokens |-> acc]
      [] OTHER -> [ok |-> FALSE, tokens |-> acc]])

\* C3: when a source text lexes without error, lexing the text slice of
\* each of its tokens on its own yields exactly that one token (same kind,
\* same payload, same text), for every kind of token.
C3_LexerRoundTrip ==
    last.tag = "None" =>
        \A i \in 1..Len(tokens) :
            LexAll(tokens[i].text, 1, <<>>) = [ok |-> TRUE, tokens |-> <<tokens[i]>>]

\* A character no token starts with.
CannotStartToken(ch) ==
    /\ ch \notin {" ", "\t", "\n", "\f", "\r"}
    /\ ch \notin AsciiLower \cup AsciiUpper \cup {"_"}
    /\ ch \notin AsciiDigit
    /\ ch # "\""
    /\ ch \notin OperatorChars

\* C8: next_token called at a character that cannot start a token returns
\* the error InvalidChar carrying that character, whatever the character,
\* non-ASCII characters included.
C8_InvalidChar ==
    (last.tag # "Start" /\ began <= Len(string) /\ CannotStartToken(string[began])) =>
        (last.tag = "Err" /\ last.err = "InvalidChar" /\ last.ch = string[began])

\* Character j of s is the one an escape consumes, in a literal opened at start.
RECURSIVE Escaped(_, _, _)
Escaped(s, start, j) ==
    j > start + 1 /\ s[j - 1] = "\\" /\ ~Escaped(s, start, j - 1)

ClosingQuotes(s, start) ==
    {j \in (start + 1)..Len(s) : s[j] = "\"" /\ ~Escaped(s, start, j)}

\* C9: a literal opened by a quote ends at the first later quote that no
\* escape consumes, and the token is the text from the one to the other;
\* when the input ends before such a quote the result is UnclosedString.
C9_StringTermination ==
    (last.tag # "Start" /\ began <= Len(string) /\ string[began] = "\"") =>
        LET closing == ClosingQuotes(string, began)
            first == CHOOSE j \in closing : \A k \in closing : j <= k
        IN  IF closing = {}
            THEN last.tag = "Err" /\ last.err = "UnclosedString"
            ELSE /\ last.tag = "Some"
                 /\ last.token.kind.k = "Str"
                 /\ last.token.text = SubSeq(string, began, first)
                 /\ chars = first + 1

\* A literal holding an escaped escape was closed by the quote after it.
C9_Witness ==
    /\ last.tag = "Some"
    /\ last.token.text = <<"\"", "\\", "\\", "\"">>

\* A literal whose only later quote is consumed by an escape was reported unclosed.
C9_WitnessUnclosed ==
    /\ last.tag = "Err"
    /\ string = <<"\"", "\\", "\"">>

\* What the claim says an escape stands for.
EscapeMeaning(c) ==
    IF c = "n" THEN "\n"
    ELSE IF c = "r" THEN "\r"
    ELSE IF c = "t" THEN "\t"
    ELSE IF c = "0" THEN NUL
    ELSE c

\* The body with every two-character escape replaced by one character.
RECURSIVE Decoded(_)
Decoded(body) ==
    IF body = <<>> THEN <<>>
    ELSE IF Head(body) = "\\"
    THEN <<EscapeMeaning(body[2])>> \o Decoded(SubSeq(body, 3, Len(body)))
    ELSE <<Head(body)>> \o Decoded(Tail(body))

RECURSIVE EscapeCount(_)
EscapeCount(body) ==
    IF body = <<>> THEN 0
    ELSE IF Head(body) = "\\" THEN 1 + EscapeCount(SubSeq(body, 3, Len(body)))
    ELSE EscapeCount(Tail(body))

BodyOf(token) == SubSeq(token.text, 2, Len(token.text) - 1)

\* C10: the value of a string token is its body with each escape replaced
\* by the character it stands for and every other character kept in order;
\* its length is the body's length less the number of escapes, and a body
\* without an escape is returned unchanged.
C10_EscapeDecoding ==
    \A i \in 1..Len(tokens) :
        tokens[i].kind.k = "Str" =>
            LET body == BodyOf(tokens[i])
                value == tokens[i].kind.v
            IN  /\ value = Decoded(body)
                /\ Len(value) = Len(body) - EscapeCount(body)
                /\ ((\A j \in 1..Len(body) : body[j] # "\\") => value = body)

\* A body with two escapes around other characters was decoded.
C10_Witness ==
    /\ Len(tokens) = 1
    /\ tokens[1].text = <<"\"", "\\", "n", "U+00E9", "\\", "\"", "\"">>
    /\ tokens[1].kind.v = <<"\n", "U+00E9", "\"">>

----------------------------------------------------------------------------
(* The symbol table (SymbolTable, used by the parser): scopes with a       *)
(* parent and an ordered list of variables, and a cursor.  Scope ids are   *)
(* indices into scopes; the parent of the root scope is 0.  log records    *)
(* the operations in the order the parser issued them.                     *)

LogEntry(op, scope, name) == [op |-> op, scope |-> scope, name |-> name]

SymbolTableNew ==
    [scopes |-> <<[parent |-> 0, vars |-> <<>>]>>, current |-> 1, log |-> <<>>]

get_scope(st) == st.current

\* A fresh scope whose parent is the current one; the cursor moves into it.
add_scope(st) ==
    [scopes |-> Append(st.scopes, [parent |-> st.current, vars |-> <<>>]),
     current |-> Len(st.scopes) + 1,
     log |-> Append(st.log, LogEntry("add_scope", Len(st.scopes) + 1, <<>>))]

enter_scope(st, id) ==
    [st EXCEPT !.current = id, !.log = Append(@, LogEntry("enter_scope", id, <<>>))]

leave_scope(st) ==
    [st EXCEPT !.current = IF st.scopes[st.current].parent = 0
                           THEN st.current
                           ELSE st.scopes[st.current].parent,
               !.log = Append(@, LogEntry("leave_scope", st.current, <<>>))]

add_variable(st, name, data_type) ==
    [st EXCEPT !.scopes[st.current].vars =
                   Append(SelectSeq(@, LAMBDA v : v.name # name),
                          [name |-> name, data_type |-> data_type]),
               !.log = Append(@, LogEntry("add_variable", st.current, name))]

DeclaredIn(st, id, name) ==
    \E i \in 1..Len(st.scopes[id].vars) : st.scopes[id].vars[i].name = name

\* A lookup walks the chain of parents: the scope the name is found in, or 0.
RECURSIVE lookup(_, _, _)
lookup(st, id, name) ==
    IF id = 0 THEN 0
    ELSE IF DeclaredIn(st, id, name) THEN id
    ELSE lookup(st, st.scopes[id].parent, name)

----------------------------------------------------------------------------
(* The syntax tree (AstKind).  An optional field is a sequence of length   *)
(* 0 or 1.                                                                 *)

Node(token) == [kind |-> "Node", token |-> token]

Prefix(oper, node) == [kind |-> "Prefix", oper |-> oper, node |-> node]

Infix(oper, lhs, rhs) == [kind |-> "Infix", oper |-> oper, lhs |-> lhs, rhs |-> rhs]

Assign(lhs, rhs) == [kind |-> "Assign", lhs |-> lhs, rhs |-> rhs]

Block(statements, scope_id) ==
    [kind |-> "Block", statements |-> statements, scope_id |-> scope_id]

Declaration(name, data_type, argument_id, value) ==
    [kind |-> "Declaration", name |-> name, data_type |-> data_type,
     argument_id |-> argument_id, value |-> value]

FunctionDeclaration(name, scope_id, return_type, arguments, body) ==
    [kind |-> "FunctionDeclaration", name |-> name, scope_id |-> scope_id,
     return_type |-> return_type, arguments |-> arguments, body |-> body]

IfStatement(condition, if_block, else_block) ==
    [kind |-> "IfStatement", condition |-> condition, if_block |-> if_block,
     else_block |-> else_block]

WhileLoop(condition, body) == [kind |-> "WhileLoop", condition |-> condition, body |-> body]

Call(lhs, arguments) == [kind |-> "Call", lhs |-> lhs, arguments |-> arguments]

\* Ast::new(symbol_table, kind)
AstNew(st, kind) == kind

\* DataType::Function { return_type, argument_types }
FunctionType(return_type, argument_types) == <<"Function", return_type, argument_types>>

----------------------------------------------------------------------------
(* Binding powers.  0 stands for None.                                     *)

prefix_bp(k) == IF k \in {"Not", "Hash", "AtSymbol", "Sub"} THEN 7 ELSE 0

\* Binding powers whose additive class binds its right side looser than its left.
infix_bp_right_additive(k) ==
    CASE k \in {"Equals", "NotEquals", "Greater", "Less", "GreaterOrEqual", "LessOrEqual"}
           -> <<1, 2>>
      [] k \in {"Add", "Sub"} -> <<4, 3>>
      [] k \in {"Mul", "Div", "Mod"} -> <<5, 6>>
      [] OTHER -> <<>>

infix_bp(k) ==
    CASE k \in {"Equals", "NotEquals", "Greater", "Less", "GreaterOrEqual", "LessOrEqual"}
           -> <<1, 2>>
      [] k \in {"Add", "Sub"} -> <<3, 4>>
      [] k \in {"Mul", "Div", "Mod"} -> <<5, 6>>
      [] OTHER -> <<>>

is_node(k) == k \in {"Ident", "Number", "Str", "True", "False"}

----------------------------------------------------------------------------
(* Results of the parser's functions (CompilerResult): val is the token,   *)
(* the tree, the list or the type returned; c the lexer position and st    *)
(* the symbol table when the function returns.                             *)

NoErr == [e |-> "", some |-> FALSE, token |-> NoToken, ch |-> ""]

UnexpectedToken(token) == [e |-> "UnexpectedToken", some |-> TRUE, token |-> token, ch |-> ""]

UnexpectedEOF == [e |-> "UnexpectedToken", some |-> FALSE, token |-> NoToken, ch |-> ""]

Ok(val, c, st) ==
    [ok |-> TRUE, panic |-> FALSE, err |-> NoErr, val |-> val, c |-> c, st |-> st]

Error(err, c, st) ==
    [ok |-> FALSE, panic |-> FALSE, err |-> err, val |-> <<>>, c |-> c, st |-> st]

\* A result of next_token as a result of the parser.
FromLexer(r, st) ==
    CASE r.tag = "Some" -> Ok(r.token, r.chars, st)
      [] r.tag = "None" -> Ok(NoToken, r.chars, st)
      [] r.tag = "Err" ->
            Error([e |-> r.err, some |-> FALSE, token |-> NoToken, ch |-> r.ch], r.chars, st)
      [] OTHER ->
            [ok |-> FALSE, panic |-> TRUE, err |-> NoErr, val |-> <<>>, c |-> r.chars, st |-> st]

\* peek_token: next_token on a copy of the parser, which is then restored.
peek_token(s, c, st) == [FromLexer(next_token(s, c), st) EXCEPT !.c = c]

expect_token(s, c, st, k) ==
    Bind([r \in {next_token(s, c)} |->
    IF r.tag = "None" THEN Error(UnexpectedEOF, r.chars, st)
    ELSE IF r.tag # "Some" THEN FromLexer(r, st)
    ELSE IF r.token.kind.k = k THEN Ok(r.token, r.chars, st)
    ELSE Error(UnexpectedToken(r.token), r.chars, st)])

\* peeking_token: val is the Boolean.
peeking_token(s, c, st, k) ==
    Bind([r \in {peek_token(s, c, st)} |->
    IF ~r.ok THEN r ELSE Ok(r.val.kind.k = k, c, st)])

----------------------------------------------------------------------------
(* The parser.  Every function takes the source s, the lexer position c    *)
(* and the symbol table st, and returns a result.                          *)

\* self.next_token()? after a peek that returned a token: the position after it.
skip_token(s, c) == next_token(s, c).chars

data_type_named(text) ==
    CASE text = <<"V", "o", "i", "d">> -> <<"Void">>
      [] text = <<"B", "o", "o", "l">> -> <<"Bool">>
      [] text = <<"S", "8">> -> <<"S8">>
      [] text = <<"S", "1", "6">> -> <<"S16">>
      [] text = <<"S", "3", "2">> -> <<"S32">>
      [] text = <<"S", "6", "4">> -> <<"S64">>
      [] text = <<"U", "8">> -> <<"U8">>
      [] text = <<"U", "1", "6">> -> <<"U16">>
      [] text = <<"U", "3", "2">> -> <<"U32">>
      [] text = <<"U", "6", "4">> -> <<"U64">>
      [] text = <<"S", "t", "r", "i", "n", "g">> -> <<"Ref", "U8">>
      [] OTHER -> <<>>

RECURSIVE parse_data_type(_, _, _)
parse_data_type(s, c, st) ==
    Bind([r \in {next_token(s, c)} |->
    IF r.tag = "None" THEN Error(UnexpectedEOF, r.chars, st)
    ELSE IF r.tag # "Some" THEN FromLexer(r, st)
    ELSE IF r.token.kind.k = "Ident"
    THEN IF data_type_named(r.token.text) = <<>>
         THEN Error(UnexpectedToken(r.token), r.chars, st)
         ELSE Ok(data_type_named(r.token.text), r.chars, st)
    ELSE IF r.token.kind.k = "Hash"
    THEN Bind([inner \in {parse_data_type(s, r.chars, st)} |->
         IF ~inner.ok THEN inner ELSE Ok(<<"Ref">> \o inner.val, inner.c, st)])
    ELSE Error(UnexpectedToken(r.token), r.chars, st)])

RECURSIVE parse_expr_bp(_, _, _, _)
RECURSIVE parse_expr_loop(_, _, _, _, _)
RECURSIVE parse_function_call_args(_, _, _)
RECURSIVE parse_call_args_loop(_, _, _, _)
RECURSIVE parse_block(_, _, _)
RECURSIVE parse_block_loop(_, _, _, _)
RECURSIVE parse_statement(_, _, _)
RECURSIVE parse_let_statement(_, _, _, _)
RECURSIVE parse_function_definition(_, _, _)
RECURSIVE parse_parameters(_, _, _, _)
RECURSIVE parse_if_statement(_, _, _)
RECURSIVE parse_while_loop(_, _, _)

parse_let_statement(s, c, st, argument_id) ==
    Bind([let \in {expect_token(s, c, st, "Let")} |->
    IF ~let.ok THEN let ELSE
    Bind([name \in {expect_token(s, let.c, st, "Ident")} |->
    IF ~name.ok THEN name ELSE
    Bind([colon \in {expect_token(s, name.c, st, "Colon")} |->
    IF ~colon.ok THEN colon ELSE
    Bind([data_type \in {parse_data_type(s, colon.c, st)} |->
    IF ~data_type.ok THEN data_type ELSE
    Bind([assign \in {peeking_token(s, data_type.c, st, "Assign")} |->
    IF ~assign.ok THEN assign ELSE
    Bind([value \in {IF assign.val
                     THEN parse_expr_bp(s, skip_token(s, data_type.c), st, 0)
                     ELSE Ok(<<>>, data_type.c, st)} |->
    IF ~value.ok THEN value ELSE
    Bind([declared \in {add_variable(value.st, name.val.text, data_type.val)} |->
    Ok(AstNew(declared,
              Declaration(name.val.text, data_type.val, argument_id,
                          IF assign.val THEN <<value.val>> ELSE <<>>)),
       value.c, declared)])])])])])])])

\* The loop over the parameters: arguments are the declarations so far.
parse_parameters(s, c, st, arguments) ==
    Bind([declaration \in {parse_let_statement(s, c, st, <<Len(arguments)>>)} |->
    IF ~declaration.ok THEN declaration ELSE
    Bind([comma \in {peeking_token(s, declaration.c, declaration.st, "Comma")} |->
    IF ~comma.ok THEN comma ELSE
    IF ~comma.val
    THEN Ok(Append(arguments, declaration.val), declaration.c, declaration.st)
    ELSE parse_parameters(s, skip_token(s, declaration.c), declaration.st,
                          Append(arguments, declaration.val))])])

\* The name added without the cursor moved to the enclosing scope first.
bind_function_name_in_place(st, outer_scope_id, scope_id, name, data_type) ==
    enter_scope(add_variable(st, name, data_type), scope_id)

\* enter_scope(outer_scope_id); add_variable(name, ...); enter_scope(scope_id)
bind_function_name(st, outer_scope_id, scope_id, name, data_type) ==
    enter_scope(add_variable(enter_scope(st, outer_scope_id), name, data_type), scope_id)

\* The data types of the declarations in arguments.
argument_types_of(arguments) == [i \in 1..Len(arguments) |-> arguments[i].data_type]

parse_function_definition(s, c, st) ==
    Bind([function \in {expect_token(s, c, st, "Function")} |->
    IF ~function.ok THEN function ELSE
    Bind([name \in {expect_token(s, function.c, st, "Ident")} |->
    IF ~name.ok THEN name ELSE
    Bind([lparen \in {expect_token(s, name.c, st, "LParen")} |->
    IF ~lparen.ok THEN lparen ELSE
    Bind([outer_scope_id \in {get_scope(st)} |->
    Bind([scoped \in {add_scope(st)} |->
    Bind([scope_id \in {get_scope(scoped)} |->
    Bind([empty \in {peeking_token(s, lparen.c, scoped, "RParen")} |->
    IF ~empty.ok THEN empty ELSE
    Bind([arguments \in {IF empty.val
                         THEN Ok(<<>>, lparen.c, scoped)
                         ELSE parse_parameters(s, lparen.c, scoped, <<>>)} |->
    IF ~arguments.ok THEN arguments ELSE
    Bind([rparen \in {expect_token(s, arguments.c, arguments.st, "RParen")} |->
    IF ~rparen.ok THEN rparen ELSE
    Bind([colon \in {peeking_token(s, rparen.c, arguments.st, "Colon")} |->
    IF ~colon.ok THEN colon ELSE
    Bind([return_type \in {IF colon.val
                           THEN parse_data_type(s, skip_token(s, rparen.c), arguments.st)
                           ELSE Ok(<<"Void">>, rparen.c, arguments.st)} |->
    IF ~return_type.ok THEN return_type ELSE
    Bind([bound \in {bind_function_name(return_type.st, outer_scope_id, scope_id,
                                        name.val.text,
                                        FunctionType(return_type.val,
                                                     argument_types_of(arguments.val)))} |->
    Bind([body \in {parse_block(s, return_type.c, bound)} |->
    IF ~body.ok THEN body ELSE
    Bind([left \in {leave_scope(body.st)} |->
    Ok(AstNew(left,
              FunctionDeclaration(name.val.text, scope_id, return_type.val,
                                  arguments.val, body.val)),
       body.c, left)])])])])])])])])])])])])])])

parse_statement(s, c, st) ==
    Bind([is_let \in {peeking_token(s, c, st, "Let")} |->
    IF ~is_let.ok THEN is_let ELSE
    IF is_let.val THEN parse_let_statement(s, c, st, <<>>) ELSE
    Bind([is_function \in {peeking_token(s, c, st, "Function")} |->
    IF ~is_function.ok THEN is_function ELSE
    IF is_function.val THEN parse_function_definition(s, c, st) ELSE
    Bind([lhs \in {parse_expr_bp(s, c, st, 0)} |->
    IF ~lhs.ok THEN lhs ELSE
    Bind([assign \in {peeking_token(s, lhs.c, lhs.st, "Assign")} |->
    IF ~assign.ok THEN assign ELSE
    IF ~assign.val THEN lhs ELSE
    Bind([rhs \in {parse_expr_bp(s, skip_token(s, lhs.c), lhs.st, 0)} |->
    IF ~rhs.ok THEN rhs ELSE
    Ok(AstNew(rhs.st, Assign(lhs.val, rhs.val)), rhs.c, rhs.st)])])])])])

\* The loop of parse_block, to the token that closes the block.
parse_block_loop(s, c, st, statements) ==
    Bind([closing \in {peeking_token(s, c, st, "RCurly")} |->
    IF ~closing.ok THEN closing ELSE
    IF closing.val THEN Ok(statements, c, st) ELSE
    Bind([statement \in {parse_statement(s, c, st)} |->
    IF ~statement.ok THEN statement ELSE
    Bind([semicolon \in {expect_token(s, statement.c, statement.st, "SemiColon")} |->
    IF ~semicolon.ok THEN semicolon ELSE
    parse_block_loop(s, semicolon.c, statement.st,
                     Append(statements, statement.val))])])])

parse_block(s, c, st) ==
    Bind([scoped \in {add_scope(st)} |->
    Bind([scope_id \in {get_scope(scoped)} |->
    Bind([opening \in {FromLexer(next_token(s, c), scoped)} |->
    IF ~opening.ok THEN opening ELSE
    Bind([statements \in {parse_block_loop(s, opening.c, scoped, <<>>)} |->
    IF ~statements.ok THEN statements ELSE
    Bind([closed \in {FromLexer(next_token(s, statements.c), statements.st)} |->
    IF ~closed.ok THEN closed ELSE
    Bind([left \in {leave_scope(statements.st)} |->
    Ok(AstNew(left, Block(statements.val, scope_id)), closed.c, left)])])])])])])

parse_if_statement(s, c, st) ==
    Bind([if \in {expect_token(s, c, st, "If")} |->
    IF ~if.ok THEN if ELSE
    Bind([condition \in {parse_expr_bp(s, if.c, st, 0)} |->
    IF ~condition.ok THEN condition ELSE
    Bind([if_block \in {parse_block(s, condition.c, condition.st)} |->
    IF ~if_block.ok THEN if_block ELSE
    Bind([else \in {peeking_token(s, if_block.c, if_block.st, "Else")} |->
    IF ~else.ok THEN else ELSE
    Bind([else_block \in {IF else.val
                          THEN parse_block(s, skip_token(s, if_block.c), if_block.st)
                          ELSE Ok(<<>>, if_block.c, if_block.st)} |->
    IF ~else_block.ok THEN else_block ELSE
    Ok(AstNew(else_block.st,
              IfStatement(condition.val, if_block.val,
                          IF else.val THEN <<else_block.val>> ELSE <<>>)),
       else_block.c, else_block.st)])])])])])

parse_while_loop(s, c, st) ==
    Bind([while \in {expect_token(s, c, st, "While")} |->
    IF ~while.ok THEN while ELSE
    Bind([condition \in {parse_expr_bp(s, while.c, st, 0)} |->
    IF ~condition.ok THEN condition ELSE
    Bind([body \in {parse_block(s, condition.c, condition.st)} |->
    IF ~body.ok THEN body ELSE
    Ok(AstNew(body.st, WhileLoop(condition.val, body.val)), body.c, body.st)])])])

\* The loop of parse_function_call_args: arguments are the ones parsed so far.
parse_call_args_loop(s, c, st, arguments) ==
    Bind([argument \in {parse_expr_bp(s, c, st, 0)} |->
    IF ~argument.ok THEN argument ELSE
    Bind([comma \in {peeking_token(s, argument.c, argument.st, "Comma")} |->
    IF ~comma.ok THEN comma ELSE
    IF comma.val
    THEN parse_call_args_loop(s, skip_token(s, argument.c), argument.st,
                              Append(arguments, argument.val))
    ELSE
    Bind([rparen \in {expect_token(s, argument.c, argument.st, "RParen")} |->
    IF ~rparen.ok THEN rparen ELSE
    Ok(Append(arguments, argument.val), rparen.c, argument.st)])])])

parse_function_call_args(s, c, st) ==
    Bind([lparen \in {expect_token(s, c, st, "LParen")} |->
    IF ~lparen.ok THEN lparen ELSE
    Bind([empty \in {peeking_token(s, lparen.c, st, "RParen")} |->
    IF ~empty.ok THEN empty ELSE
    IF empty.val THEN Ok(<<>>, skip_token(s, lparen.c), st)
    ELSE parse_call_args_loop(s, lparen.c, st, <<>>)])])

\* The loop with the call taken as an operator that a minimum binding
\* power above 0 stops.
parse_expr_loop_call_by_power(s, c, st, min_bp, lhs) ==
    Bind([peeked \in {peek_token(s, c, st)} |->
    IF ~peeked.ok THEN peeked ELSE
    IF peeked.val = NoToken THEN Ok(lhs, c, st) ELSE
    IF peeked.val.kind.k = "LParen" /\ min_bp = 0
    THEN Bind([arguments \in {parse_function_call_args(s, c, st)} |->
         IF ~arguments.ok THEN arguments ELSE
         parse_expr_loop(s, arguments.c, arguments.st, min_bp,
                         AstNew(arguments.st, Call(lhs, arguments.val)))])
    ELSE
    Bind([bp \in {infix_bp(peeked.val.kind.k)} |->
    IF bp = <<>> THEN Ok(lhs, c, st) ELSE
    IF bp[1] < min_bp THEN Ok(lhs, c, st) ELSE
    Bind([rhs \in {parse_expr_bp(s, skip_token(s, c), st, bp[2])} |->
    IF ~rhs.ok THEN rhs ELSE
    parse_expr_loop(s, rhs.c, rhs.st, min_bp,
                    AstNew(rhs.st, Infix(peeked.val, lhs, rhs.val)))])])])

\* The loop of parse_expr_bp after its left-hand side.
parse_expr_loop(s, c, st, min_bp, lhs) ==
    Bind([peeked \in {peek_token(s, c, st)} |->
    IF ~peeked.ok THEN peeked ELSE
    IF peeked.val = NoToken THEN Ok(lhs, c, st) ELSE
    IF peeked.val.kind.k = "LParen"
    THEN Bind([arguments \in {parse_function_call_args(s, c, st)} |->
         IF ~arguments.ok THEN arguments ELSE
         parse_expr_loop(s, arguments.c, arguments.st, min_bp,
                         AstNew(arguments.st, Call(lhs, arguments.val)))])
    ELSE
    Bind([bp \in {infix_bp(peeked.val.kind.k)} |->
    IF bp = <<>> THEN Ok(lhs, c, st) ELSE
    IF bp[1] < min_bp THEN Ok(lhs, c, st) ELSE
    Bind([rhs \in {parse_expr_bp(s, skip_token(s, c), st, bp[2])} |->
    IF ~rhs.ok THEN rhs ELSE
    parse_expr_loop(s, rhs.c, rhs.st, min_bp,
                    AstNew(rhs.st, Infix(peeked.val, lhs, rhs.val)))])])])

\* The left-hand side parse_expr_bp starts from: the match on the peeked token.
parse_expr_lhs(s, c, st, token) ==
    CASE token.kind.k = "LParen" ->
            Bind([inside \in {parse_expr_bp(s, skip_token(s, c), st, 0)} |->
            IF ~inside.ok THEN inside ELSE
            Bind([rparen \in {expect_token(s, inside.c, inside.st, "RParen")} |->
            IF ~rparen.ok THEN rparen ELSE
            Ok(inside.val, rparen.c, inside.st)])])
      [] token.kind.k = "LCurly" -> parse_block(s, c, st)
      [] token.kind.k = "If" -> parse_if_statement(s, c, st)
      [] token.kind.k = "While" -> parse_while_loop(s, c, st)
      [] is_node(token.kind.k) -> Ok(AstNew(st, Node(token)), skip_token(s, c), st)
      [] OTHER ->
            Bind([bp \in {prefix_bp(token.kind.k)} |->
            IF bp = 0 THEN Error(UnexpectedToken(token), skip_token(s, c), st) ELSE
            Bind([node \in {parse_expr_bp(s, skip_token(s, c), st, bp)} |->
            IF ~node.ok THEN node ELSE
            Ok(AstNew(node.st, Prefix(token, node.val)), node.c, node.st)])])

parse_expr_bp(s, c, st, min_bp) ==
    Bind([peeked \in {peek_token(s, c, st)} |->
    IF ~peeked.ok THEN peeked ELSE
    IF peeked.val = NoToken THEN Error(UnexpectedEOF, c, st) ELSE
    Bind([lhs \in {parse_expr_lhs(s, c, st, peeked.val)} |->
    IF ~lhs.ok THEN lhs ELSE
    parse_expr_loop(s, lhs.c, lhs.st, min_bp, lhs.val)])])

\* Parser::parse, up to the type inference of the tree.
parse(s) ==
    Bind([ast \in {parse_expr_bp(s, 1, SymbolTableNew, 0)} |->
    IF ~ast.ok THEN ast ELSE
    Bind([rest \in {FromLexer(next_token(s, ast.c), ast.st)} |->
    IF ~rest.ok THEN rest ELSE
    IF rest.val # NoToken THEN Error(UnexpectedToken(rest.val), rest.c, ast.st)
    ELSE ast])])

----------------------------------------------------------------------------
(* Expressions on their own: parse_expr_bp(0) on the text of an expression *)
(* made of primaries, prefix operators and infix operators.                *)

MaxExprTokens == 7

MaxAnyOperatorTokens == 3

\* The source text of a sequence of token texts: the texts with a space between.
RECURSIVE Source(_)
Source(texts) ==
    IF texts = <<>> THEN <<>>
    ELSE IF Len(texts) = 1 THEN texts[1]
    ELSE texts[1] \o <<" ">> \o Source(Tail(texts))

\* The expressions written out in the language's description of its parser.
ExprExamples ==
    {<<"1", " ", "+", " ", "2", " ", "*", " ", "3">>,
     <<"a", " ", "=", "=", " ", "b", " ", "+", " ", "c">>,
     <<"-", " ", "-", " ", "x">>,
     <<"!", "a", " ", "=", "=", " ", "b">>,
     <<"a", " ", "-", " ", "b", " ", "-", " ", "c">>}

\* pc is the caller's position: about to call, or returned from the call.
Calling(function) == [pc |-> function]

Returned == [pc |-> "returned"]

\* The expressions parsed: the longer ones over two primaries, one prefix
\* operator and an infix operator of each of three binding powers; the
\* shorter ones over every operator of the language; and the examples.
InitExpr ==
    LET \* Operands (prefix operators before a primary) of at most n token texts.
        RECURSIVE OperandTexts(_, _, _)
        OperandTexts(primaries, prefixes, n) ==
            IF n <= 0 THEN {}
            ELSE {<<p>> : p \in primaries}
                 \cup {<<u>> \o o : u \in prefixes,
                                    o \in OperandTexts(primaries, prefixes, n - 1)}
        \* Operands joined by infix operators, of at most n token texts.
        RECURSIVE ExprTexts(_, _, _, _)
        ExprTexts(primaries, prefixes, infixes, n) ==
            UNION {{o} \cup {o \o <<i>> \o e :
                                i \in infixes,
                                e \in ExprTexts(primaries, prefixes, infixes,
                                                n - Len(o) - 1)} :
                   o \in OperandTexts(primaries, prefixes, n)}
        ExprSources ==
            {Source(t) : t \in ExprTexts({<<"a">>, <<"1">>}, {<<"-">>},
                                         {<<"-">>, <<"*">>, <<"=", "=">>}, MaxExprTokens)}
            \cup {Source(t) : t \in ExprTexts({<<"a">>, <<"1">>},
                                              {<<"!">>, <<"#">>, <<"@">>, <<"-">>},
                                              {<<"+">>, <<"-">>, <<"*">>, <<"/">>, <<"%">>,
                                               <<"=", "=">>, <<"!", "=">>, <<">">>, <<"<">>,
                                               <<">", "=">>, <<"<", "=">>},
                                              MaxAnyOperatorTokens)}
            \cup ExprExamples
    IN  /\ string \in ExprSources
        /\ chars = 1
        /\ began = 1
        /\ tokens = <<>>
        /\ last = Start
        /\ machine = Calling("parse_expr_bp")
        /\ NasmOff

\* parser.parse_expr_bp(&mut symbol_table, 0) on a new parser and symbol table.
ParseExprBp ==
    /\ machine = Calling("parse_expr_bp")
    /\ \E r \in {parse_expr_bp(string, chars, SymbolTableNew, 0)} :
        /\ last' = r
        /\ chars' = r.c
    /\ machine' = Returned
    /\ UNCHANGED <<string, began, tokens>>
    /\ UNCHANGED <<bytecode, listing, cpu>>

SpecExpr == InitExpr /\ [][ParseExprBp]_vars

(* Calls in expressions: parse_expr_bp from each minimum binding power the *)
(* parser calls it with, on expressions whose operands end in calls.       *)

MaxCallTokens == 7

\* The expressions of at most MaxCallTokens tokens over `f`, calls of no
\* argument and of the argument `x`, the prefix `-` and the infix `*` and
\* `-`, a space between the tokens; and `-f(x)`, `a * f(x)`, `f(x)(y)`,
\* `f(- x * x)`.  The minimum binding powers are those parse_expr_bp is
\* called with: 0, the right binding powers of the infix operators, and
\* that of the prefix operators.
InitBp ==
    LET RECURSIVE Postfix(_)
        Postfix(n) ==
            IF n <= 0 THEN {}
            ELSE {<<<<"f">>>>}
                 \cup {p \o <<<<"(">>, <<")">>>> : p \in Postfix(n - 2)}
                 \cup {p \o <<<<"(">>, <<"x">>, <<")">>>> : p \in Postfix(n - 3)}
        RECURSIVE Operand(_)
        Operand(n) ==
            IF n <= 0 THEN {}
            ELSE Postfix(n) \cup {<<<<"-">>>> \o o : o \in Operand(n - 1)}
        RECURSIVE Expr(_)
        Expr(n) ==
            Operand(n)
            \cup UNION {{o \o <<i>> \o e : i \in {<<"*">>, <<"-">>},
                                          e \in Expr(n - Len(o) - 1)} :
                        o \in Operand(n)}
        CallSources ==
            {Source(t) : t \in Expr(MaxCallTokens)}
            \cup {<<"-", "f", "(", "x", ")">>,
                  <<"a", " ", "*", " ", "f", "(", "x", ")">>,
                  <<"f", "(", "x", ")", "(", "y", ")">>,
                  <<"f", "(", "-", " ", "x", " ", "*", " ", "x", ")">>}
    IN  /\ string \in CallSources
        /\ chars = 1
        /\ began = 1
        /\ tokens = <<>>
        /\ last = Start
        /\ machine \in {[pc |-> "parse_expr_bp", min_bp |-> min_bp] :
                            min_bp \in {0, 2, 4, 6, 7}}
        /\ NasmOff

\* parser.parse_expr_bp(&mut symbol_table, min_bp) on a new parser and symbol table.
ParseExprBpFrom ==
    /\ machine.pc = "parse_expr_bp"
    /\ \E r \in {parse_expr_bp(string, chars, SymbolTableNew, machine.min_bp)} :
        /\ last' = r
        /\ chars' = r.c
    /\ machine' = [machine EXCEPT !.pc = "returned"]
    /\ UNCHANGED <<string, began, tokens>>
    /\ UNCHANGED <<bytecode, listing, cpu>>

SpecBp == InitBp /\ [][ParseExprBpFrom]_vars

----------------------------------------------------------------------------
(* Claims about expressions.                                               *)

\* How tightly the operators of a class bind: comparison loosest, then
\* additive, then multiplicative; 0 for a token that is no infix operator.
ClassOf(k) ==
    CASE k \in {"Equals", "NotEquals", "Greater", "Less", "GreaterOrEqual", "LessOrEqual"} -> 1
      [] k \in {"Add", "Sub"} -> 2
      [] k \in {"Mul", "Div", "Mod"} -> 3
      [] OTHER -> 0

IsPrimary(k) == k \in {"Ident", "Number", "Str", "True", "False"}

IsPrefixOperator(k) == k \in {"Not", "Hash", "AtSymbol", "Sub"}

\* The tokens at which an infix operator stands: an operator after a primary.
InfixPositions(ts) ==
    {i \in 2..Len(ts) : ClassOf(ts[i].kind.k) > 0 /\ IsPrimary(ts[i - 1].kind.k)}

\* ts is an expression of primaries, prefix operators and infix operators.
IsOperatorExpr(ts) ==
    /\ Len(ts) > 0
    /\ IsPrimary(ts[Len(ts)].kind.k)
    /\ \A i \in 1..Len(ts) :
        \/ /\ IsPrimary(ts[i].kind.k)
           /\ i > 1 => ~IsPrimary(ts[i - 1].kind.k)
        \/ /\ i \in InfixPositions(ts)
        \/ /\ IsPrefixOperator(ts[i].kind.k)
           /\ i > 1 => ~IsPrimary(ts[i - 1].kind.k)

\* The tree the classes dictate: split at the loosest infix operator, the
\* rightmost one among equals; with no infix operator left, a prefix
\* operator applies to all that follows it.
RECURSIVE TreeOf(_)
TreeOf(ts) ==
    LET at == InfixPositions(ts)
        split == CHOOSE i \in at :
                    \A j \in at :
                        \/ ClassOf(ts[i].kind.k) < ClassOf(ts[j].kind.k)
                        \/ ClassOf(ts[i].kind.k) = ClassOf(ts[j].kind.k) /\ j <= i
    IN  IF at # {}
        THEN Infix(ts[split], TreeOf(SubSeq(ts, 1, split - 1)),
                   TreeOf(SubSeq(ts, split + 1, Len(ts))))
        ELSE IF Len(ts) = 1 THEN Node(ts[1])
        ELSE Prefix(ts[1], TreeOf(Tail(ts)))

OperatorText(k) ==
    CASE k = "Equals" -> <<"=", "=">>
      [] k = "NotEquals" -> <<"!", "=">>
      [] k = "GreaterOrEqual" -> <<">", "=">>
      [] k = "LessOrEqual" -> <<"<", "=">>
      [] k = "Greater" -> <<">">>
      [] k = "Less" -> <<"<">>
      [] k = "Add" -> <<"+">>
      [] k = "Sub" -> <<"-">>
      [] k = "Mul" -> <<"*">>
      [] k = "Div" -> <<"/">>
      [] k = "Mod" -> <<"%">>
      [] k = "Not" -> <<"!">>
      [] k = "Hash" -> <<"#">>
      [] k = "AtSymbol" -> <<"@">>
      [] OTHER -> <<"?">>

\* A tree of Node, Prefix and Infix written with every operator in parentheses.
RECURSIVE Parenthesised(_)
Parenthesised(ast) ==
    CASE ast.kind = "Node" -> ast.token.text
      [] ast.kind = "Prefix" ->
            <<"(">> \o OperatorText(ast.oper.kind.k) \o Parenthesised(ast.node) \o <<")">>
      [] ast.kind = "Infix" ->
            <<"(">> \o Parenthesised(ast.lhs) \o OperatorText(ast.oper.kind.k)
                \o Parenthesised(ast.rhs) \o <<")">>
      [] OTHER -> <<"?">>

\* The written-out expressions with the grouping their description gives.
ExampleGrouping(source) ==
    CASE source = <<"1", " ", "+", " ", "2", " ", "*", " ", "3">> ->
            <<"(", "1", "+", "(", "2", "*", "3", ")", ")">>
      [] source = <<"a", " ", "=", "=", " ", "b", " ", "+", " ", "c">> ->
            <<"(", "a", "=", "=", "(", "b", "+", "c", ")", ")">>
      [] source = <<"-", " ", "-", " ", "x">> ->
            <<"(", "-", "(", "-", "x", ")", ")">>
      [] source = <<"!", "a", " ", "=", "=", " ", "b">> ->
            <<"(", "(", "!", "a", ")", "=", "=", "b", ")">>
      [] source = <<"a", " ", "-", " ", "b", " ", "-", " ", "c">> ->
            <<"(", "(", "a", "-", "b", ")", "-", "c", ")">>
      [] OTHER -> <<>>

\* C1: parse_expr_bp(0) on an expression of primaries, prefix operators and
\* infix operators consumes all of it and returns the tree the classes
\* dictate: multiplicative binds tighter than additive, additive tighter
\* than comparison, operators of one class group to the left, and a prefix
\* operator binds tighter than every infix operator; the written-out
\* examples get the grouping their description gives.
C1_Precedence ==
    LET lexed == LexAll(string, 1, <<>>)
    IN  (machine = Returned /\ lexed.ok /\ IsOperatorExpr(lexed.tokens)) =>
            /\ last.ok
            /\ last.c = Len(string) + 1
            /\ last.val = TreeOf(lexed.tokens)
            /\ string \in ExprExamples => Parenthesised(last.val) = ExampleGrouping(string)

\* An expression with an operator of each class and a prefix operator was
\* parsed: `- a - 1 * a == 1` grouped as ((-a) - (1 * a)) == 1.
C1_Witness ==
    /\ machine = Returned
    /\ last.ok
    /\ string = <<"a", " ", "=", "=", " ", "-", " ", "a", " ", "-", " ", "1">>
    /\ Parenthesised(last.val)
         = <<"(", "a", "=", "=", "(", "(", "-", "a", ")", "-", "1", ")", ")">>

----------------------------------------------------------------------------
(* Programs: Parser::parse on the text of a program, up to the type        *)
(* inference of the tree it returns.                                       *)

MaxStatements == 2

\* `fn main() { let x = 1; };`
MainWithoutAnnotation ==
    <<"f", "n", " ", "m", "a", "i", "n", "(", ")", " ", "{", " ", "l", "e", "t", " ", "x",
      " ", "=", " ", "1", ";", " ", "}", ";">>

\* `{ fn main() { let x = 1; }; }`
BlockWithoutAnnotation ==
    <<"{", " ", "f", "n", " ", "m", "a", "i", "n", "(", ")", " ", "{", " ", "l", "e", "t",
      " ", "x", " ", "=", " ", "1", ";", " ", "}", ";", " ", "}">>

\* `{ fn f(a: U64) { }; }`
OneBareParameter ==
    <<"{", " ", "f", "n", " ", "f", "(", "a", ":", " ", "U", "6", "4", ")", " ", "{", " ",
      "}", ";", " ", "}">>

\* `{ fn f(a: U64, b: U64): U64 { }; }`
TwoBareParameters ==
    <<"{", " ", "f", "n", " ", "f", "(", "a", ":", " ", "U", "6", "4", ",", " ", "b", ":",
      " ", "U", "6", "4", ")", ":", " ", "U", "6", "4", " ", "{", " ", "}", ";", " ", "}">>

\* `{ fn fact(n: U64): U64 { if n == 0 { 1; } else { n * fact(n - 1); }; }; }`
FactInBlock ==
    <<"{", " ", "f", "n", " ", "f", "a", "c", "t", "(", "n", ":", " ", "U", "6", "4", ")",
      ":", " ", "U", "6", "4", " ", "{", " ", "i", "f", " ", "n", " ", "=", "=", " ", "0",
      " ", "{", " ", "1", ";", " ", "}", " ", "e", "l", "s", "e", " ", "{", " ", "n", " ",
      "*", " ", "f", "a", "c", "t", "(", "n", " ", "-", " ", "1", ")", ";", " ", "}", ";",
      " ", "}", ";", " ", "}">>

\* `{ fn fact(let n: U64): U64 { if n == 0 { 1; } else { n * fact(n - 1); }; }; }`
FactWithLet ==
    <<"{", " ", "f", "n", " ", "f", "a", "c", "t", "(", "l", "e", "t", " ", "n", ":", " ",
      "U", "6", "4", ")", ":", " ", "U", "6", "4", " ", "{", " ", "i", "f", " ", "n", " ",
      "=", "=", " ", "0", " ", "{", " ", "1", ";", " ", "}", " ", "e", "l", "s", "e", " ",
      "{", " ", "n", " ", "*", " ", "f", "a", "c", "t", "(", "n", " ", "-", " ", "1", ")",
      ";", " ", "}", ";", " ", "}", ";", " ", "}">>

\* `{ fn f(let a: U64, let b: Bool): U64 { if a == 0 { let x: U64 = 1; }
\*    else { let y: U64; }; x = f(1, true); }; let z: U64; }`
NestedScopes ==
    <<"{", " ", "f", "n", " ", "f", "(", "l", "e", "t", " ", "a", ":", " ", "U", "6", "4",
      ",", " ", "l", "e", "t", " ", "b", ":", " ", "B", "o", "o", "l", ")", ":", " ", "U",
      "6", "4", " ", "{", " ", "i", "f", " ", "a", " ", "=", "=", " ", "0", " ", "{", " ",
      "l", "e", "t", " ", "x", ":", " ", "U", "6", "4", " ", "=", " ", "1", ";", " ", "}",
      " ", "e", "l", "s", "e", " ", "{", " ", "l", "e", "t", " ", "y", ":", " ", "U", "6",
      "4", ";", " ", "}", ";", " ", "x", " ", "=", " ", "f", "(", "1", ",", " ", "t", "r",
      "u", "e", ")", ";", " ", "}", ";", " ", "l", "e", "t", " ", "z", ":", " ", "U", "6",
      "4", ";", " ", "}">>

\* `{ fn f(): Nope { }; }`
UnknownReturnType ==
    <<"{", " ", "f", "n", " ", "f", "(", ")", ":", " ", "N", "o", "p", "e", " ", "{", " ",
      "}", ";", " ", "}">>

\* `{ 1 }`
StatementWithoutSemiColon == <<"{", " ", "1", " ", "}">>

\* A token that is not `{`, or the end of the input, at each place where
\* a block is due: after the condition of `while` and of `if`, after
\* `else`, and after the parameter list of `fn`; a `}` follows the token.
BlocklessPrograms ==
    {[source |-> Source(place[1] \o (IF token = <<>> THEN <<>>
                                     ELSE <<token, <<"}">>>> \o place[2])),
      token |-> token] :
        place \in {<<<<<<"w", "h", "i", "l", "e">>, <<"1">>>>, <<>>>>,
                   <<<<<<"i", "f">>, <<"1">>>>, <<>>>>,
                   <<<<<<"i", "f">>, <<"1">>, <<"{">>, <<"}">>, <<"e", "l", "s", "e">>>>, <<>>>>,
                   <<<<<<"{">>, <<"f", "n">>, <<"f">>, <<"(">>, <<")">>>>,
                     <<<<";">>, <<"}">>>>>>},
        token \in {<<>>, <<"2">>, <<"x">>, <<";">>, <<"}">>, <<")">>, <<",">>}}

\* The programs parsed: the blocks of at most MaxStatements statements,
\* the programs written out above, and those without a block where one
\* is due.
InitProg ==
    LET \* The lists of statements, as token texts, that hold n statements in
        \* all, bodies included, each statement followed by its `;`.
        RECURSIVE StatementLists(_)
        RECURSIVE Statements(_)
        StatementLists(n) ==
            IF n = 0 THEN {<<>>}
            ELSE UNION {{first \o <<<<";">>>> \o rest :
                            first \in Statements(k), rest \in StatementLists(n - k)} :
                        k \in 1..n}
        \* A statement without a body is a declaration or an assignment of a
        \* call; one with a body is an `if`, a function of two parameters
        \* with a return type, or a function of none.
        Statements(n) ==
            (IF n = 1
             THEN {<<<<"l", "e", "t">>, <<"x">>, <<":">>, <<"U", "6", "4">>>>,
                   <<<<"x">>, <<"=">>, <<"f">>, <<"(">>, <<"1">>, <<")">>>>}
             ELSE {})
            \cup {head \o <<<<"{">>>> \o body \o <<<<"}">>>> :
                    head \in {<<<<"i", "f">>, <<"x">>>>,
                              <<<<"f", "n">>, <<"f">>, <<"(">>,
                                <<"l", "e", "t">>, <<"a">>, <<":">>, <<"U", "6", "4">>,
                                <<",">>,
                                <<"l", "e", "t">>, <<"b">>, <<":">>, <<"B", "o", "o", "l">>,
                                <<")">>,
                                <<":">>, <<"U", "6", "4">>>>,
                              <<<<"f", "n">>, <<"g">>, <<"(">>, <<")">>>>},
                    body \in StatementLists(n - 1)}
        BlockPrograms ==
            {Source(<<<<"{">>>> \o body \o <<<<"}">>>>) :
                body \in UNION {StatementLists(n) : n \in 0..MaxStatements}}
        ProgExamples ==
            {MainWithoutAnnotation, BlockWithoutAnnotation, OneBareParameter,
             TwoBareParameters, FactInBlock, FactWithLet, NestedScopes,
             UnknownReturnType, StatementWithoutSemiColon}
    IN  /\ string \in BlockPrograms \cup ProgExamples
                        \cup {program.source : program \in BlocklessPrograms}
        /\ chars = 1
        /\ began = 1
        /\ tokens = <<>>
        /\ last = Start
        /\ machine = Calling("parse")
        /\ NasmOff

\* Parser::parse(string)
Parse ==
    /\ machine = Calling("parse")
    /\ \E r \in {parse(string)} :
        /\ last' = r
        /\ chars' = r.c
    /\ machine' = Returned
    /\ UNCHANGED <<string, began, tokens>>
    /\ UNCHANGED <<bytecode, listing, cpu>>

SpecProg == InitProg /\ [][Parse]_vars

----------------------------------------------------------------------------
(* Claims about programs.                                                  *)

\* The trees directly below a node that is neither a block nor a function.
Children(ast) ==
    CASE ast.kind = "Prefix" -> <<ast.node>>
      [] ast.kind = "Infix" -> <<ast.lhs, ast.rhs>>
      [] ast.kind = "Assign" -> <<ast.lhs, ast.rhs>>
      [] ast.kind = "Call" -> <<ast.lhs>> \o ast.arguments
      [] ast.kind = "Declaration" -> ast.value
      [] ast.kind = "IfStatement" -> <<ast.condition, ast.if_block>> \o ast.else_block
      [] ast.kind = "WhileLoop" -> <<ast.condition, ast.body>>
      [] OTHER -> <<>>

\* The names the statements of a block declare: variables and functions.
DeclaredNames(statements) ==
    {statements[i].name :
        i \in {j \in 1..Len(statements) :
                statements[j].kind \in {"Declaration", "FunctionDeclaration"}}}

ParameterNames(function) ==
    {function.arguments[i].name : i \in 1..Len(function.arguments)}

\* The place in the log of the allocation of scope id.
AllocatedAt(log, id) == CHOOSE i \in 1..Len(log) : log[i] = LogEntry("add_scope", id, <<>>)

\* The name was added to scope outer after the function's scope fs was
\* allocated and before the scope bs of its body was.
BoundBeforeBody(log, outer, name, fs, bs) ==
    \E i \in 1..Len(log) :
        /\ log[i] = LogEntry("add_variable", outer, name)
        /\ AllocatedAt(log, fs) < i
        /\ i < AllocatedAt(log, bs)

\* The tree ast, parsed with scope outer current, has its names in the
\* scopes the claim says; visible are the names the tree declares in outer
\* and the scopes around it.
RECURSIVE ScopeDiscipline(_, _, _, _)
ScopeDiscipline(st, ast, outer, visible) ==
    CASE ast.kind = "Block" ->
            LET id == ast.scope_id
                own == DeclaredNames(ast.statements)
            IN  /\ st.scopes[id].parent = outer
                /\ \A i \in 1..Len(ast.statements) :
                    LET statement == ast.statements[i]
                    IN  /\ ScopeDiscipline(st, statement, id, visible \cup own)
                        /\ statement.kind = "Declaration" =>
                            /\ DeclaredIn(st, id, statement.name)
                            /\ lookup(st, id, statement.name) = id
                            /\ statement.name \notin visible =>
                                    lookup(st, outer, statement.name) = 0
      [] ast.kind = "FunctionDeclaration" ->
            LET fs == ast.scope_id
                bs == ast.body.scope_id
                parameters == ParameterNames(ast)
                inner == DeclaredNames(ast.body.statements)
            IN  /\ st.scopes[fs].parent = outer
                /\ st.scopes[bs].parent = fs
                /\ \A p \in parameters :
                    /\ DeclaredIn(st, fs, p)
                    /\ lookup(st, bs, p) = IF p \in inner THEN bs ELSE fs
                    /\ p \notin visible => lookup(st, outer, p) = 0
                /\ DeclaredIn(st, outer, ast.name)
                /\ lookup(st, bs, ast.name)
                     = IF ast.name \in inner THEN bs
                       ELSE IF ast.name \in parameters THEN fs
                       ELSE outer
                /\ BoundBeforeBody(st.log, outer, ast.name, fs, bs)
                /\ ScopeDiscipline(st, ast.body, fs, visible \cup parameters)
      [] OTHER ->
            \A i \in 1..Len(Children(ast)) :
                ScopeDiscipline(st, Children(ast)[i], outer, visible)

\* C2: in the symbol table a parse leaves, a variable declared by `let` in
\* a block is in that block's scope and a lookup from the enclosing scope
\* does not find it; the parameters of a function are in the scope made at
\* its `(`, found from the scope of its body and not from the scope around
\* the function; the function's name is added to the scope around it
\* before the body is parsed, and is found from inside the body.
C2_ScopeDiscipline ==
    (machine = Returned /\ last.ok) => ScopeDiscipline(last.st, last.val, 1, {})

\* The program with a function of two parameters, an `if` with a `let` in
\* each of its blocks, and a `let` after the function was parsed: its
\* scopes are the block of the program (2), the function's (3), its
\* body's (4) and the blocks of the `if` (5 and 6).
C2_Witness ==
    /\ machine = Returned
    /\ last.ok
    /\ string = NestedScopes
    /\ last.val.statements[1].kind = "FunctionDeclaration"
    /\ last.val.statements[1].scope_id = 3
    /\ last.val.statements[1].body.statements[1].if_block.scope_id = 5
    /\ lookup(last.st, 5, <<"x">>) = 5
    /\ lookup(last.st, 4, <<"x">>) = 0
    /\ lookup(last.st, 6, <<"y">>) = 6
    /\ lookup(last.st, 4, <<"a">>) = 3
    /\ lookup(last.st, 2, <<"a">>) = 0
    /\ lookup(last.st, 5, <<"f">>) = 2
    /\ lookup(last.st, 2, <<"z">>) = 2

\* C5: parsing `fn main() { let x = 1; };` fails with UnexpectedToken
\* carrying the `=` token.
C5_MissingAnnotation ==
    (machine = Returned /\ string = MainWithoutAnnotation) =>
        /\ ~last.ok
        /\ last.err = UnexpectedToken(Token(<<"=">>, Kind("Assign")))

\* The same function inside a block does fail at the `=`.
C5_InBlock ==
    (machine = Returned /\ string = BlockWithoutAnnotation) =>
        /\ ~last.ok
        /\ last.err = UnexpectedToken(Token(<<"=">>, Kind("Assign")))

\* Parameters carry the argument ids 0, 1, ... in order, and the
\* declarations of `let` statements carry none.
RECURSIVE ArgumentIds(_)
ArgumentIds(ast) ==
    CASE ast.kind = "Block" ->
            \A i \in 1..Len(ast.statements) :
                /\ ArgumentIds(ast.statements[i])
                /\ ast.statements[i].kind = "Declaration" =>
                        ast.statements[i].argument_id = <<>>
      [] ast.kind = "FunctionDeclaration" ->
            /\ \A i \in 1..Len(ast.arguments) :
                /\ ast.arguments[i].kind = "Declaration"
                /\ ast.arguments[i].argument_id = <<i - 1>>
            /\ ArgumentIds(ast.body)
      [] OTHER -> \A i \in 1..Len(Children(ast)) : ArgumentIds(Children(ast)[i])

\* The programs whose parameters are written `NAME : TYPE`.
BareParameterPrograms == {OneBareParameter, TwoBareParameters, FactInBlock}

\* C6: a function whose parameters are written `NAME : TYPE`, without
\* `let`, is accepted; the parameters of a function are declarations with
\* the argument ids 0, 1, ..., k-1 in order, and the declaration of a
\* `let` statement has no argument id.
C6_Parameters ==
    machine = Returned =>
        /\ string \in BareParameterPrograms => last.ok
        /\ last.ok => ArgumentIds(last.val)

\* With `let` before each parameter the ids are as the claim says.
C6_WithLet ==
    (machine = Returned /\ last.ok) => ArgumentIds(last.val)

----------------------------------------------------------------------------
(* Data types and the frame layout of a function (DataType, Function).     *)
(* A data type is the sequence the parser builds: <<"U64">>,               *)
(* <<"Ref", "U8">>, <<"Function", return_type, argument_types>>.           *)

\* DataType::size: the width in bytes; 0 stands for its failure on Void.
size(data_type) ==
    CASE data_type[1] \in {"Bool", "S8", "U8"} -> 1
      [] data_type[1] \in {"S16", "U16"} -> 2
      [] data_type[1] \in {"S32", "U32"} -> 4
      [] data_type[1] \in {"S64", "U64", "Ref", "Function"} -> 8
      [] OTHER -> 0

\* DataType::size_aligned: size rounded up to 8 bytes.
size_aligned(data_type) == ((size(data_type) + 7) \div 8) * 8

Function(name, return_type, argument_types, register_types, opcodes) ==
    [name |-> name, return_type |-> return_type, argument_types |-> argument_types,
     register_types |-> register_types, opcodes |-> opcodes]

\* The sum of the aligned sizes of the first n of types.
RECURSIVE SumAligned(_, _)
SumAligned(types, n) ==
    IF n = 0 THEN 0 ELSE SumAligned(types, n - 1) + size_aligned(types[n])

arguments_size(function) ==
    SumAligned(function.argument_types, Len(function.argument_types))

\* Register and argument ids count from 0.
register_position(function, register_id) == SumAligned(function.register_types, register_id)

argument_position(function, argument_id) == SumAligned(function.argument_types, argument_id)

stack_size(function) == SumAligned(function.register_types, Len(function.register_types))

----------------------------------------------------------------------------
(* Operands of the byte code (Argument) and its opcodes (OpCode).          *)

ReturnValue == [kind |-> "ReturnValue"]

Register(register_id) == [kind |-> "Register", id |-> register_id]

Argument(argument_id) == [kind |-> "Argument", id |-> argument_id]

Constant(value, data_type) == [kind |-> "Constant", value |-> value, data_type |-> data_type]

Symbol(name, data_type) == [kind |-> "Symbol", name |-> name, data_type |-> data_type]

\* Function::argument_data_type
argument_data_type(function, argument) ==
    CASE argument.kind = "ReturnValue" -> function.return_type
      [] argument.kind = "Register" -> function.register_types[argument.id + 1]
      [] argument.kind = "Argument" -> function.argument_types[argument.id + 1]
      [] OTHER -> argument.data_type

MovOpCode(dst, src) == [op |-> "Mov", dst |-> dst, src |-> src]

\* OpCode::Add, Sub, Mul, Div, Mod, Deref, DerefMov { dst, src }
OpCode(op, dst, src) == [op |-> op, dst |-> dst, src |-> src]

\* OpCode::SetIfEqual .. SetIfLessOrEqual { dst, lhs, rhs }
SetIfOpCode(op, dst, lhs, rhs) == [op |-> op, dst |-> dst, lhs |-> lhs, rhs |-> rhs]

CallOpCode(dst, lhs, arguments) ==
    [op |-> "Call", dst |-> dst, lhs |-> lhs, arguments |-> arguments]

----------------------------------------------------------------------------
(* The listing: instructions with their operands.  A memory operand is     *)
(* `width [rbp + offset]`, offset negative for `[rbp - n]`.                *)

data_type_generate(data_type) ==
    CASE size(data_type) = 1 -> "byte"
      [] size(data_type) = 2 -> "word"
      [] size(data_type) = 4 -> "dword"
      [] size(data_type) = 8 -> "qword"
      [] OTHER -> "unreachable"

\* NasmRegister::generate: the register at the width of the data type.
NasmRegister(register, data_type) ==
    [kind |-> "register", name |-> register, width |-> data_type_generate(data_type)]

Memory(width, offset) == [kind |-> "memory", width |-> width, offset |-> offset]

Immediate(value) == [kind |-> "immediate", value |-> value]

Label(name) == [kind |-> "label", name |-> name]

\* `[register]`: the memory a register holds the address of.
Address(register) == [kind |-> "address", base |-> register]

NoOperand == [kind |-> "none"]

Instruction(op, dst, src) == [op |-> op, dst |-> dst, src |-> src]

\* Argument::VoidRegister, the destination of a call whose result is dropped.
VoidRegister == [kind |-> "VoidRegister"]

\* unreachable!(): the generator panics; the operand stands for the panic.
Unreachable == [kind |-> "unreachable"]

\* Register(i) addressed without the 8 bytes below rbp.
generate_argument_register_at_rbp(function, argument) ==
    CASE argument.kind = "ReturnValue" ->
            Memory(data_type_generate(function.return_type),
                   8 + arguments_size(function) + size_aligned(function.return_type))
      [] argument.kind = "Register" ->
            Memory(data_type_generate(function.register_types[argument.id + 1]),
                   0 - register_position(function, argument.id))
      [] argument.kind = "Argument" ->
            Memory(data_type_generate(function.argument_types[argument.id + 1]),
                   8 + arguments_size(function) - argument_position(function, argument.id))
      [] argument.kind = "Constant" -> Immediate(argument.value)
      [] argument.kind = "Symbol" -> Label(argument.name)
      [] argument.kind = "VoidRegister" -> Unreachable

generate_argument(function, argument) ==
    CASE argument.kind = "ReturnValue" ->
            Memory(data_type_generate(function.return_type),
                   8 + arguments_size(function) + size_aligned(function.return_type))
      [] argument.kind = "Register" ->
            Memory(data_type_generate(function.register_types[argument.id + 1]),
                   0 - (8 + register_position(function, argument.id)))
      [] argument.kind = "Argument" ->
            Memory(data_type_generate(function.argument_types[argument.id + 1]),
                   8 + arguments_size(function) - argument_position(function, argument.id))
      [] argument.kind = "Constant" -> Immediate(argument.value)
      [] argument.kind = "Symbol" -> Label(argument.name)
      [] argument.kind = "VoidRegister" -> Unreachable

is_argument_comparable(argument) == argument.kind \notin {"Register", "Argument"}

generate_infix(function, dst, src, operation) ==
    IF is_argument_comparable(src)
    THEN <<Instruction(operation, generate_argument(function, dst),
                       generate_argument(function, src))>>
    ELSE <<Instruction("mov", NasmRegister("rax", argument_data_type(function, dst)),
                       generate_argument(function, src)),
           Instruction(operation, generate_argument(function, dst),
                       NasmRegister("rax", argument_data_type(function, dst)))>>

\* arguments.iter().rev()
rev(arguments) == [i \in 1..Len(arguments) |-> arguments[Len(arguments) + 1 - i]]

\* The loop of the Call opcode over the arguments in the order given.
RECURSIVE push_arguments(_, _)
push_arguments(function, arguments) ==
    IF arguments = <<>> THEN <<>>
    ELSE <<Instruction("mov",
                       NasmRegister("rax", argument_data_type(function, Head(arguments))),
                       generate_argument(function, Head(arguments))),
           Instruction("push", NoOperand, NasmRegister("rax", <<"U64">>))>>
         \o push_arguments(function, Tail(arguments))

\* The sum of the sizes of the arguments of a call, not aligned.
RECURSIVE argument_stack_size_unaligned(_, _)
argument_stack_size_unaligned(function, arguments) ==
    IF arguments = <<>> THEN 0
    ELSE size(argument_data_type(function, Head(arguments)))
         + argument_stack_size_unaligned(function, Tail(arguments))

\* The sum of the aligned sizes of the arguments of a call.
RECURSIVE argument_stack_size(_, _)
argument_stack_size(function, arguments) ==
    IF arguments = <<>> THEN 0
    ELSE size_aligned(argument_data_type(function, Head(arguments)))
         + argument_stack_size(function, Tail(arguments))

\* The Call opcode with the return slot pushed and popped whatever the
\* return type.
generate_call_pushing_void(function, dst, lhs, arguments, return_type) ==
    <<Instruction("push", NoOperand, generate_argument(function, dst))>>
    \o push_arguments(function, rev(arguments))
    \o (IF lhs.kind = "Symbol"
        THEN <<Instruction("call", NoOperand, generate_argument(function, lhs))>>
        ELSE <<Instruction("mov", NasmRegister("rax", argument_data_type(function, lhs)),
                           generate_argument(function, lhs)),
               Instruction("call", NoOperand,
                           NasmRegister("rax", argument_data_type(function, lhs)))>>)
    \o <<Instruction("add", NasmRegister("rsp", <<"U64">>),
                     Immediate(argument_stack_size(function, arguments)))>>
    \o <<Instruction("pop", generate_argument(function, dst), NoOperand)>>

\* generate_opcode on OpCode::Call; return_type is that of the type of lhs.
generate_call(function, dst, lhs, arguments, return_type) ==
    (IF return_type = <<"Void">> THEN <<>>
     ELSE <<Instruction("push", NoOperand, generate_argument(function, dst))>>)
    \o push_arguments(function, rev(arguments))
    \o (IF lhs.kind = "Symbol"
        THEN <<Instruction("call", NoOperand, generate_argument(function, lhs))>>
        ELSE <<Instruction("mov", NasmRegister("rax", argument_data_type(function, lhs)),
                           generate_argument(function, lhs)),
               Instruction("call", NoOperand,
                           NasmRegister("rax", argument_data_type(function, lhs)))>>)
    \o <<Instruction("add", NasmRegister("rsp", <<"U64">>),
                     Immediate(argument_stack_size(function, arguments)))>>
    \o (IF return_type = <<"Void">> THEN <<>>
        ELSE <<Instruction("pop", generate_argument(function, dst), NoOperand)>>)

\* A register of the width of the data type of an operand.
RegisterFor(register, function, argument) ==
    NasmRegister(register, argument_data_type(function, argument))

generate_comparison(function, dst, lhs, rhs, operation) ==
    <<Instruction("mov", RegisterFor("rax", function, lhs), generate_argument(function, lhs)),
      Instruction("cmp", RegisterFor("rax", function, lhs), generate_argument(function, rhs)),
      Instruction(operation, generate_argument(function, dst), NoOperand)>>

\* The set instruction of a SetIf opcode.
SetInstruction(op) ==
    CASE op = "SetIfEqual" -> "sete"
      [] op = "SetIfNotEqual" -> "setne"
      [] op = "SetIfGreater" -> "setg"
      [] op = "SetIfLess" -> "setl"
      [] op = "SetIfGreaterOrEqual" -> "setge"
      [] op = "SetIfLessOrEqual" -> "setle"

generate_opcode(function, opcode) ==
    CASE opcode.op = "Mov" /\ opcode.dst # opcode.src ->
            generate_infix(function, opcode.dst, opcode.src, "mov")
      [] opcode.op = "Add" -> generate_infix(function, opcode.dst, opcode.src, "add")
      [] opcode.op = "Sub" -> generate_infix(function, opcode.dst, opcode.src, "sub")
      [] opcode.op = "Mul" ->
            <<Instruction("mov", RegisterFor("rax", function, opcode.dst),
                          generate_argument(function, opcode.dst)),
              Instruction("mov", RegisterFor("rbx", function, opcode.dst),
                          generate_argument(function, opcode.src)),
              Instruction("mul", NoOperand, RegisterFor("rbx", function, opcode.dst)),
              Instruction("mov", generate_argument(function, opcode.dst),
                          RegisterFor("rax", function, opcode.dst))>>
      [] opcode.op \in {"Div", "Mod"} ->
            <<Instruction("xor", RegisterFor("rdx", function, opcode.dst),
                          RegisterFor("rdx", function, opcode.dst)),
              Instruction("mov", RegisterFor("rax", function, opcode.dst),
                          generate_argument(function, opcode.dst)),
              Instruction("mov", RegisterFor("rbx", function, opcode.dst),
                          generate_argument(function, opcode.src)),
              Instruction("div", NoOperand, RegisterFor("rbx", function, opcode.dst)),
              Instruction("mov", generate_argument(function, opcode.dst),
                          RegisterFor(IF opcode.op = "Div" THEN "rax" ELSE "rdx",
                                      function, opcode.dst))>>
      [] opcode.op = "Deref" ->
            <<Instruction("mov", RegisterFor("rax", function, opcode.src),
                          generate_argument(function, opcode.src)),
              Instruction("mov", RegisterFor("rbx", function, opcode.dst),
                          Address(RegisterFor("rax", function, opcode.src))),
              Instruction("mov", generate_argument(function, opcode.dst),
                          RegisterFor("rbx", function, opcode.dst))>>
      [] opcode.op = "DerefMov" ->
            <<Instruction("mov", RegisterFor("rax", function, opcode.src),
                          generate_argument(function, opcode.dst)),
              Instruction("mov", RegisterFor("rbx", function, opcode.dst),
                          generate_argument(function, opcode.src)),
              Instruction("mov", Address(RegisterFor("rax", function, opcode.src)),
                          RegisterFor("rbx", function, opcode.dst))>>
      [] opcode.op \in {"SetIfEqual", "SetIfNotEqual", "SetIfGreater", "SetIfLess",
                        "SetIfGreaterOrEqual", "SetIfLessOrEqual"} ->
            generate_comparison(function, opcode.dst, opcode.lhs, opcode.rhs,
                                SetInstruction(opcode.op))
      [] opcode.op = "Call" ->
            generate_call(function, opcode.dst, opcode.lhs, opcode.arguments,
                          argument_data_type(function, opcode.lhs)[2])
      [] OTHER -> <<>>

\* The loop of generate_function over the opcodes.
RECURSIVE generate_opcodes(_, _)
generate_opcodes(function, opcodes) ==
    IF opcodes = <<>> THEN <<>>
    ELSE generate_opcode(function, Head(opcodes))
         \o generate_opcodes(function, Tail(opcodes))

\* The lines after the label `name:`.
generate_function(function) ==
    <<Instruction("enter", Immediate(stack_size(function)), Immediate(0))>>
    \o generate_opcodes(function, function.opcodes)
    \o <<Instruction("leave", NoOperand, NoOperand), Instruction("ret", NoOperand, NoOperand)>>

PRINT_CODE ==
    <<Instruction("enter", Immediate(0), Immediate(0)),
      Instruction("mov", NasmRegister("rax", <<"U64">>), Immediate(1)),
      Instruction("mov", NasmRegister("rdi", <<"U64">>), Immediate(1)),
      Instruction("mov", NasmRegister("rsi", <<"U64">>), Memory("qword", 24)),
      Instruction("mov", NasmRegister("rdx", <<"U64">>), Memory("qword", 16)),
      Instruction("syscall", NoOperand, NoOperand),
      Instruction("leave", NoOperand, NoOperand),
      Instruction("ret", NoOperand, NoOperand)>>

ENTRY_CODE ==
    <<Instruction("sub", NasmRegister("rsp", <<"U64">>), Immediate(8)),
      Instruction("call", NoOperand, Label("@main")),
      Instruction("mov", NasmRegister("rax", <<"U64">>), Immediate(60)),
      Instruction("pop", NasmRegister("rdi", <<"U64">>), NoOperand),
      Instruction("syscall", NoOperand, NoOperand)>>

\* The loop of generate over the functions: the code under each label.
RECURSIVE generate_functions(_, _)
generate_functions(functions, code) ==
    IF functions = <<>> THEN code
    ELSE generate_functions(Tail(functions),
                            (Head(functions).name :> generate_function(Head(functions)))
                                @@ code)

\* Nasm::generate: the code of the listing by label.
generate(bc) ==
    generate_functions(bc.functions, ("print" :> PRINT_CODE) @@ ("_start" :> ENTRY_CODE))

----------------------------------------------------------------------------
(* The machine that runs the listing.  Every value is an integer: stack    *)
(* addresses are 0 and below, in bytes; the code under a label starts at   *)
(* the address of the label, one address per instruction.  A stack cell is *)
(* named by the address of its 8-byte slot; an access narrower than 8      *)
(* bytes reads or writes the value of the slot.                            *)

\* The address the assembler gives a label.
SymbolAddress(name) ==
    CASE name = "print" -> 1000
      [] name = "_start" -> 2000
      [] name = "@main" -> 3000
      [] name = "@f" -> 4000
      [] OTHER -> 5000

\* The instruction at rip: under the label whose code holds the address.
Fetch(code, rip) ==
    LET name == CHOOSE label \in {"print", "_start", "@main", "@f"} :
                    SymbolAddress(label) <= rip /\ rip < SymbolAddress(label) + 1000
    IN  code[name][rip - SymbolAddress(name) + 1]

\* A cell nothing wrote to reads as Unwritten.
Unwritten == -1

Read(mem, address) == IF address \in DOMAIN mem THEN mem[address] ELSE Unwritten

Write(mem, address, value) ==
    [a \in DOMAIN mem \cup {address} |-> IF a = address THEN value ELSE mem[a]]

\* The machine when the program is started.
Boot ==
    [rax |-> 0, rbx |-> 0, rdi |-> 0, rsi |-> 0, rdx |-> 0, rsp |-> 0, rbp |-> 0,
     zf |-> FALSE, sf |-> FALSE, of |-> FALSE, cf |-> FALSE,
     rip |-> SymbolAddress("_start"), mem |-> <<>>, written |-> <<>>,
     exited |-> FALSE, faulted |-> FALSE]

\* The number of values of an operand of one or two bytes.  The values of
\* the model stay below 2^31, so an operand of four or eight bytes holds
\* every value whole.
Modulus(width) ==
    CASE width = "byte" -> 256
      [] width = "word" -> 65536

\* A value as an operand of this width holds it.
Narrow(value, width) ==
    IF width \in {"byte", "word"} /\ value # Unwritten
    THEN value % Modulus(width) ELSE value

\* al, ax, eax and rax are the low bytes of rax; a cell holds the value of
\* its last write.
Load(c, operand) ==
    CASE operand.kind = "register" -> Narrow(c[operand.name], operand.width)
      [] operand.kind = "memory" ->
            Narrow(Read(c.mem, c.rbp + operand.offset), operand.width)
      [] operand.kind = "immediate" -> operand.value
      [] operand.kind = "label" -> SymbolAddress(operand.name)

\* A write to al or ax keeps the bytes of rax above it.
Store(c, operand, value) ==
    IF operand.kind = "register"
    THEN [c EXCEPT ![operand.name] =
                IF operand.width \in {"byte", "word"}
                THEN @ - (@ % Modulus(operand.width)) + (value % Modulus(operand.width))
                ELSE value]
    ELSE [c EXCEPT !.mem = Write(c.mem, c.rbp + operand.offset,
                                 Narrow(value, operand.width))]

Push(c, value) == [c EXCEPT !.rsp = c.rsp - 8, !.mem = Write(c.mem, c.rsp - 8, value)]

\* cmp a, b at a width: the flags of a - b.  With one or two bytes the
\* difference wraps and the sign is the top bit; with four or eight bytes
\* the values of the model are below 2^31, where nothing wraps.
Compare(c, a, b, width) ==
    IF width \in {"byte", "word"}
    THEN [c EXCEPT !.zf = a = b,
                   !.cf = a < b,
                   !.sf = 2 * ((a - b) % Modulus(width)) >= Modulus(width),
                   !.of = /\ (2 * a >= Modulus(width)) # (2 * b >= Modulus(width))
                          /\ (2 * ((a - b) % Modulus(width)) >= Modulus(width))
                                # (2 * a >= Modulus(width))]
    ELSE [c EXCEPT !.zf = a = b, !.cf = a < b, !.sf = a < b, !.of = FALSE]

\* The condition a set instruction tests.
Condition(c, op) ==
    CASE op = "sete" -> c.zf
      [] op = "setne" -> ~c.zf
      [] op = "setg" -> ~c.zf /\ c.sf = c.of
      [] op = "setl" -> c.sf # c.of
      [] op = "setge" -> c.sf = c.of
      [] op = "setle" -> c.zf \/ c.sf # c.of

\* div by an operand of one byte divides ax and leaves the quotient in al
\* and the remainder in ah; by an operand of two bytes it divides dx:ax and
\* leaves them in ax and dx; by a wider operand it divides rdx:rax and leaves
\* them in rax and rdx.  A quotient that does not fit is a divide error: the
\* high half of the dividend is not below the divisor.  A high half of four
\* or eight bytes that passes is 0 in the model, whose values are below 2^31.
\* A divide error ends the program.
Divide(c, divisor, width) ==
    IF width = "byte"
    THEN IF divisor = 0 \/ (c.rax % 65536) \div 256 >= divisor
         THEN [c EXCEPT !.faulted = TRUE, !.exited = TRUE]
         ELSE [c EXCEPT !.rax = @ - (@ % 65536) + ((@ % 65536) % divisor) * 256
                                  + ((@ % 65536) \div divisor)]
    ELSE IF divisor = 0 \/ Narrow(c.rdx, width) >= divisor
         THEN [c EXCEPT !.faulted = TRUE, !.exited = TRUE]
         ELSE IF width = "word"
         THEN [c EXCEPT
                !.rax = @ - (@ % 65536)
                        + (((c.rdx % 65536) * 65536 + (@ % 65536)) \div divisor),
                !.rdx = @ - (@ % 65536)
                        + (((@ % 65536) * 65536 + (c.rax % 65536)) % divisor)]
         ELSE [c EXCEPT !.rax = @ \div divisor, !.rdx = c.rax % divisor]

\* One instruction; c is the machine with rip already past the instruction.
Execute(c, instruction) ==
    CASE instruction.op = "enter" ->
            [c EXCEPT !.mem = Write(c.mem, c.rsp - 8, c.rbp),
                      !.rbp = c.rsp - 8,
                      !.rsp = c.rsp - 8 - instruction.dst.value]
      [] instruction.op = "leave" ->
            [c EXCEPT !.rsp = c.rbp + 8, !.rbp = Read(c.mem, c.rbp)]
      [] instruction.op = "mov" -> Store(c, instruction.dst, Load(c, instruction.src))
      [] instruction.op = "add" ->
            Store(c, instruction.dst, Load(c, instruction.dst) + Load(c, instruction.src))
      [] instruction.op = "sub" ->
            Store(c, instruction.dst, Load(c, instruction.dst) - Load(c, instruction.src))
      [] instruction.op = "xor" /\ instruction.dst = instruction.src ->
            Store(c, instruction.dst, 0)
      [] instruction.op = "cmp" ->
            Compare(c, Load(c, instruction.dst),
                    Narrow(Load(c, instruction.src), instruction.dst.width),
                    instruction.dst.width)
      [] instruction.op \in {"sete", "setne", "setg", "setl", "setge", "setle"} ->
            Store(c, instruction.dst, IF Condition(c, instruction.op) THEN 1 ELSE 0)
      [] instruction.op = "div" ->
            Divide(c, Load(c, instruction.src), instruction.src.width)
      [] instruction.op = "push" -> Push(c, Load(c, instruction.src))
      [] instruction.op = "pop" ->
            Store([c EXCEPT !.rsp = c.rsp + 8], instruction.dst, Read(c.mem, c.rsp))
      [] instruction.op = "call" ->
            [Push(c, c.rip) EXCEPT !.rip = Load(c, instruction.src)]
      [] instruction.op = "ret" ->
            [c EXCEPT !.rip = Read(c.mem, c.rsp), !.rsp = c.rsp + 8]
      [] instruction.op = "syscall" ->
            IF c.rax = 60
            THEN [c EXCEPT !.exited = TRUE]
            ELSE [c EXCEPT !.written = Append(@, [buf |-> c.rsi, count |-> c.rdx])]

----------------------------------------------------------------------------
(* The code generator on a ByteCode, and the machine on its listing.       *)

MaxRegisters == 2

MaxArguments == 2

\* Nasm::generate(bytecode)
Generate ==
    /\ listing = <<>>
    /\ listing' = generate(bytecode)
    /\ cpu' = Boot
    /\ UNCHANGED <<string, chars, began, tokens, last, machine, bytecode>>

\* The machine runs the instruction at rip.
Step ==
    /\ listing # <<>>
    /\ ~cpu.exited
    /\ cpu' = Execute([cpu EXCEPT !.rip = @ + 1], Fetch(listing, cpu.rip))
    /\ UNCHANGED <<string, chars, began, tokens, last, machine, bytecode, listing>>

\* The parser takes no part.
ParserOff ==
    /\ string = <<>>
    /\ chars = 1
    /\ began = 1
    /\ tokens = <<>>
    /\ last = Start
    /\ machine = NoMachine

(* Frames: one function, with registers, arguments and a return value of   *)
(* every width, and at most one Mov between its operands.                  *)

\* The operands a function of these types can name.
OperandsOf(return_type, argument_types, register_types) ==
    {Register(i) : i \in 0..(Len(register_types) - 1)}
    \cup {Argument(i) : i \in 0..(Len(argument_types) - 1)}
    \cup (IF return_type = <<"Void">> THEN {} ELSE {ReturnValue})

\* The function has no opcode, or one Mov: to register 0 or the return
\* value, from argument 0 or a constant.
InitFrame ==
    LET LayoutTypes == {<<"Bool">>, <<"U32">>, <<"U64">>}
        FrameOpcodes(return_type, argument_types, register_types) ==
            {<<>>} \cup
            {<<MovOpCode(dst, src)>> :
                dst \in OperandsOf(return_type, <<>>, register_types)
                        \ {Register(1), Register(2)},
                src \in (OperandsOf(<<"Void">>, argument_types, <<>>)
                         \ {Argument(1), Argument(2)})
                        \cup {Constant(1, <<"U64">>)}}
        FrameFunctions ==
            UNION {{Function("@f", return_type, argument_types, register_types, opcodes) :
                        opcodes \in FrameOpcodes(return_type, argument_types,
                                                 register_types)} :
                   return_type \in LayoutTypes \cup {<<"Void">>},
                   argument_types \in SeqsUpTo(LayoutTypes, MaxArguments),
                   register_types \in SeqsUpTo(LayoutTypes, MaxRegisters)}
    IN  /\ ParserOff
        /\ bytecode \in {[functions |-> <<function>>, symbols |-> <<>>] :
                            function \in FrameFunctions}
        /\ listing = <<>>
        /\ cpu = <<>>

SpecFrame == InitFrame /\ [][Generate]_vars

(* Calls: @main sets its registers, calls @f or print with arguments drawn *)
(* from its registers and a constant, and returns 0.                       *)

\* @main calls the user function @f, by symbol or through a register, or
\* print(text, length) on a string symbol.
InitCall ==
    LET \* The registers of @main: the destination of the call, two values
        \* and the address of the function called.
        MainRegisterTypes(callee_type) ==
            <<<<"U64">>, <<"U64">>, <<"U8">>, callee_type>>
        \* The types of operands of @main, whatever type its register 3 has.
        OperandTypes(operands) ==
            [i \in 1..Len(operands) |->
                argument_data_type(Function("@main", <<"U64">>, <<>>,
                                            MainRegisterTypes(<<"U64">>), <<>>),
                                   operands[i])]
        Main(name, callee_type, lhs, arguments) ==
            Function("@main", <<"U64">>, <<>>, MainRegisterTypes(callee_type),
                     <<MovOpCode(Register(0), Constant(100, <<"U64">>)),
                       MovOpCode(Register(1), Constant(101, <<"U64">>)),
                       MovOpCode(Register(2), Constant(102, <<"U8">>)),
                       MovOpCode(Register(3), Symbol(name, callee_type)),
                       CallOpCode(IF callee_type[2] = <<"Void">>
                                  THEN VoidRegister ELSE Register(0),
                                  lhs, arguments),
                       MovOpCode(ReturnValue, Constant(0, <<"U64">>))>>)
        UserCalls ==
            {[functions |->
                <<Main("@f", FunctionType(return_type, OperandTypes(arguments)),
                       IF by_symbol
                       THEN Symbol("@f", FunctionType(return_type,
                                                      OperandTypes(arguments)))
                       ELSE Register(3),
                       arguments),
                  Function("@f", return_type, OperandTypes(arguments),
                           register_types, <<>>)>>,
              symbols |-> <<>>] :
                return_type \in {<<"Void">>, <<"U64">>},
                arguments \in SeqsUpTo({Register(1), Register(2), Constant(7, <<"U64">>)},
                                      MaxArguments),
                register_types \in {<<>>, <<<<"U64">>>>},
                by_symbol \in BOOLEAN}
        PrintCalls ==
            {[functions |->
                <<Main("print", FunctionType(<<"Void">>, <<<<"Ref", "U8">>, <<"U64">>>>),
                       Symbol("print",
                              FunctionType(<<"Void">>, <<<<"Ref", "U8">>, <<"U64">>>>)),
                       <<Symbol("str0", <<"Ref", "U8">>), Constant(3, <<"U64">>)>>)>>,
              symbols |-> <<"str0">>]}
    IN  /\ ParserOff
        /\ bytecode \in UserCalls \cup PrintCalls
        /\ listing = <<>>
        /\ cpu = <<>>

NextCall == Generate \/ Step

SpecCall == InitCall /\ [][NextCall]_vars

(* Opcodes: one function whose registers, arguments and return value have  *)
(* a type T and the type of a reference to T, and one opcode on them.      *)

\* The opcodes with a destination and a source, on operands of one type;
\* Deref from a reference and DerefMov through a reference.
InitOps ==
    LET ValueOperands(T) ==
            {Register(0), Register(1), Argument(0), ReturnValue, Constant(1, T)}
        RefOperands(T) == {Register(2), Argument(1), Symbol("str0", <<"Ref">> \o T)}
        TypedOpcodes(T) ==
            {OpCode(op, dst, src) :
                op \in {"Mov", "Add", "Sub", "Mul", "Div", "Mod"},
                dst \in ValueOperands(T) \ {Constant(1, T)},
                src \in ValueOperands(T)}
            \cup {OpCode(op, dst, src) :
                op \in {"Mov", "Add", "Sub"},
                dst \in {Register(2), Argument(1)},
                src \in RefOperands(T)}
            \cup {OpCode("Deref", dst, src) :
                dst \in ValueOperands(T) \ {Constant(1, T)}, src \in RefOperands(T)}
            \cup {OpCode("DerefMov", dst, src) :
                dst \in {Register(2), Argument(1)}, src \in ValueOperands(T)}
    IN  /\ ParserOff
        /\ bytecode \in
                UNION {{[functions |-> <<Function("@f", T, <<T, <<"Ref">> \o T>>,
                                                  <<T, T, <<"Ref">> \o T>>, <<opcode>>)>>,
                         symbols |-> <<"str0">>] : opcode \in TypedOpcodes(T)} :
                       T \in {<<"U8">>, <<"S16">>, <<"U32">>, <<"U64">>}}
        /\ listing = <<>>
        /\ cpu = <<>>

SpecOps == InitOps /\ [][Generate]_vars

(* Arithmetic: @main sets two registers of a type T, leaves a value in     *)
(* rax by a Mov between two other registers, compares or divides the two,  *)
(* and returns 0.                                                          *)

\* The two values are drawn from values of the type, with those at which
\* the top bit changes.
InitArith ==
    LET ArithValues(T) ==
            CASE T \in {<<"U8">>, <<"S8">>} -> {0, 1, 7, 127, 128, 255}
              [] T \in {<<"U16">>, <<"S16">>} -> {0, 1, 7, 255, 32767, 32768, 65535}
              [] OTHER -> {0, 1, 7, 65536, 2147483647}
        ArithMain(T, a, b, prior, opcode) ==
            Function("@main", <<"U64">>, <<>>, <<T, T, <<"Bool">>, <<"U16">>, <<"U16">>>>,
                     <<MovOpCode(Register(0), Constant(a, T)),
                       MovOpCode(Register(1), Constant(b, T)),
                       MovOpCode(Register(3), Constant(prior, <<"U16">>)),
                       MovOpCode(Register(4), Register(3)),
                       opcode,
                       MovOpCode(ReturnValue, Constant(0, <<"U64">>))>>)
        ArithOpcodes ==
            {SetIfOpCode(op, Register(2), Register(0), Register(1)) :
                op \in {"SetIfEqual", "SetIfNotEqual", "SetIfGreater", "SetIfLess",
                        "SetIfGreaterOrEqual", "SetIfLessOrEqual"}}
            \cup {OpCode(op, Register(0), Register(1)) : op \in {"Div", "Mod"}}
    IN  /\ ParserOff
        /\ bytecode \in
                UNION {{[functions |-> <<ArithMain(T, a, b, prior, opcode)>>,
                         symbols |-> <<>>] :
                            a \in ArithValues(T), b \in ArithValues(T),
                            prior \in {0, 768}, opcode \in ArithOpcodes} :
                       T \in {<<"U8">>, <<"S8">>, <<"U16">>, <<"S16">>, <<"U32">>,
                              <<"U64">>}}
        /\ listing = <<>>
        /\ cpu = <<>>

SpecArith == InitArith /\ [][NextCall]_vars

----------------------------------------------------------------------------
(* Claims about the frame layout and the calling convention.               *)

\* The number of bytes of an operand of this width.
WidthBytes(width) ==
    CASE width = "byte" -> 1
      [] width = "word" -> 2
      [] width = "dword" -> 4
      [] width = "qword" -> 8

\* The bytes a memory operand names, as offsets from rbp.
Cells(operand) == operand.offset..(operand.offset + WidthBytes(operand.width) - 1)

\* What `enter` and `call` leave at rbp: the saved base pointer and, above
\* it, the return address.
SavedBasePointer == 0..7

ReturnAddress == 8..15

CallOf(function) ==
    function.opcodes[CHOOSE i \in 1..Len(function.opcodes) : function.opcodes[i].op = "Call"]

\* What the caller holds in an operand while the function it called runs:
\* the caller's frame is at the base pointer `enter` saved.
CallerValue(c, caller, argument) ==
    IF argument.kind \in {"Constant", "Symbol"}
    THEN Load(c, generate_argument(caller, argument))
    ELSE Read(c.mem, Read(c.mem, c.rbp) + generate_argument(caller, argument).offset)

\* The machine is in the function under this label, past its `enter`.
Entered(name) == listing # <<>> /\ cpu.rip = SymbolAddress(name) + 1

\* print is about to make its system call.
PrintWrites == listing # <<>> /\ cpu.rip = SymbolAddress("print") + 5

\* The cell the callee addresses for its argument i holds what the caller
\* pushed for argument i of the call.
ArgumentAgrees(i) ==
    Load(cpu, generate_argument(bytecode.functions[2], Argument(i)))
        = CallerValue(cpu, bytecode.functions[1],
                      CallOf(bytecode.functions[1]).arguments[i + 1])

\* The cell the callee addresses for its return value is the slot the
\* caller pushed, first, below its frame.
ReturnSlotAgrees ==
    bytecode.functions[2].return_type # <<"Void">> =>
        cpu.rbp + generate_argument(bytecode.functions[2], ReturnValue).offset
            = Read(cpu.mem, cpu.rbp) - stack_size(bytecode.functions[1]) - 8

\* C4: for a Call with arguments a0 .. a(n-1), once control is in the
\* callee and the callee has executed `enter`, the cell addressed for the
\* callee's Argument(i) holds the value the caller pushed for a_i, for every
\* i < n, and the cell addressed for ReturnValue is the return slot the
\* caller pushed; print reads its first argument at [rbp + 24] and its
\* second at [rbp + 16] under the same convention.
C4_CallingConvention ==
    /\ Entered("@f") =>
        /\ \A i \in 0..(Len(CallOf(bytecode.functions[1]).arguments) - 1) : ArgumentAgrees(i)
        /\ ReturnSlotAgrees
    /\ PrintWrites =>
        /\ cpu.rsi = CallerValue(cpu, bytecode.functions[1],
                                 CallOf(bytecode.functions[1]).arguments[1])
        /\ cpu.rdx = CallerValue(cpu, bytecode.functions[1],
                                 CallOf(bytecode.functions[1]).arguments[2])

\* The part of C4 that the code keeps: calls with at most one argument,
\* and the return slot of every call.
C4_AtMostOneArgument ==
    Entered("@f") =>
        /\ Len(CallOf(bytecode.functions[1]).arguments) <= 1 =>
            \A i \in 0..(Len(CallOf(bytecode.functions[1]).arguments) - 1) : ArgumentAgrees(i)
        /\ ReturnSlotAgrees

\* With two arguments the callee finds them exchanged: argument 0 is
\* addressed where the caller pushed argument 1.
C4_Exchanged ==
    (Entered("@f") /\ Len(CallOf(bytecode.functions[1]).arguments) = 2) =>
        /\ Load(cpu, generate_argument(bytecode.functions[2], Argument(0)))
            = CallerValue(cpu, bytecode.functions[1],
                          CallOf(bytecode.functions[1]).arguments[2])
        /\ Load(cpu, generate_argument(bytecode.functions[2], Argument(1)))
            = CallerValue(cpu, bytecode.functions[1],
                          CallOf(bytecode.functions[1]).arguments[1])

\* The program runs to its exit with status 0 and reads no cell nothing
\* wrote to.
RunsToExit ==
    listing # <<>> =>
        /\ Unwritten \notin {cpu.rax, cpu.rdi, cpu.rsi, cpu.rdx, cpu.rbp}
        /\ cpu.exited => (cpu.rdi = 0 /\ cpu.rsp = 0)

----------------------------------------------------------------------------
(* Claims about the code emitted for a Call.                               *)

\* The places of the instructions of this name in the code of @main.
PlacesOf(op) == {i \in DOMAIN listing["@main"] : listing["@main"][i].op = op}

\* The return slot of the calls of @main: its register 0, a U64.
ReturnSlot == Memory("qword", -8)

\* C11: for every Call whose callee has return type Void, dst is not
\* evaluated: no return slot is pushed before the arguments, none is popped
\* after the stack adjustment, and a VoidRegister dst does not reach the
\* unreachable arm of generate_argument; for every Call whose callee does not
\* return Void, exactly one push of dst is emitted, before the pushes of the
\* arguments, and exactly one pop of dst, right after `add rsp`.
C11_VoidRegister ==
    listing # <<>> =>
        LET main == bytecode.functions[1]
            code == listing["@main"]
            returns == argument_data_type(main, CallOf(main).lhs)[2]
            pushed == {i \in PlacesOf("push") : code[i].src # NasmRegister("rax", <<"U64">>)}
        IN  /\ \A i \in DOMAIN code : Unreachable \notin {code[i].dst, code[i].src}
            /\ Cardinality(PlacesOf("push") \ pushed) = Len(CallOf(main).arguments)
            /\ Cardinality(PlacesOf("add")) = 1
            /\ IF returns = <<"Void">>
               THEN pushed = {} /\ PlacesOf("pop") = {}
               ELSE /\ \E first \in PlacesOf("push") :
                        /\ pushed = {first}
                        /\ code[first].src = ReturnSlot
                        /\ \A i \in PlacesOf("push") : first <= i
                    /\ \E only \in PlacesOf("pop") :
                        /\ PlacesOf("pop") = {only}
                        /\ code[only].dst = ReturnSlot
                        /\ only - 1 \in PlacesOf("add")

\* A call of a Void function with two arguments and VoidRegister as dst:
\* two pushes, no pop.
C11_Witness ==
    /\ listing # <<>>
    /\ CallOf(bytecode.functions[1]).dst = VoidRegister
    /\ Len(CallOf(bytecode.functions[1]).arguments) = 2
    /\ Cardinality(PlacesOf("push")) = 2
    /\ PlacesOf("pop") = {}

\* A call of a function that returns a U64: the slot is pushed and popped.
C11_WitnessReturning ==
    /\ listing # <<>>
    /\ CallOf(bytecode.functions[1]).dst = Register(0)
    /\ Cardinality(PlacesOf("push")) = 3
    /\ Cardinality(PlacesOf("pop")) = 1

\* The machine is in @main at the instruction that follows `enter` and the
\* four Movs, the first of the call sequence.
BeforeCall == listing # <<>> /\ cpu.rip = SymbolAddress("@main") + 5

\* The machine is in @main past the call sequence, at the Mov that precedes
\* `leave` and `ret`.
AfterCall ==
    listing # <<>> /\ cpu.rip = SymbolAddress("@main") + Len(listing["@main"]) - 3

\* C12: for every Call (0 to 2 arguments of one or eight bytes, Void or
\* U64 return type, by symbol or through rax) to a callee that returns with
\* `leave; ret`, the stack pointer after the whole call sequence equals the
\* stack pointer before it, the bottom of the frame of @main, and the base
\* pointer is that of @main; and at the exit of _start the stack pointer is
\* the one the program started with, the 8 bytes reserved before
\* `call @main` being the bytes `pop rdi` removes.
C12_StackBalance ==
    /\ (BeforeCall \/ AfterCall) =>
        /\ cpu.rbp = Boot.rsp - 24
        /\ cpu.rsp = cpu.rbp - stack_size(bytecode.functions[1])
    /\ (listing # <<>> /\ cpu.exited) => cpu.rsp = Boot.rsp

\* Past a call with a one-byte and an eight-byte argument and a return slot.
C12_Witness ==
    /\ AfterCall
    /\ CallOf(bytecode.functions[1]).dst = Register(0)
    /\ CallOf(bytecode.functions[1]).arguments = <<Register(2), Register(1)>>
    /\ cpu.rsp = -56

\* The exit of _start after a call of print.
C12_WitnessExit ==
    /\ listing # <<>>
    /\ cpu.exited
    /\ cpu.written # <<>>

----------------------------------------------------------------------------
(* Claims about the operands of the instructions emitted for an opcode.    *)

\* The opcode of the function of SpecOps.
TheOpcode == bytecode.functions[1].opcodes[1]

\* The operand names memory.
InMemory(operand) == operand.kind \in {"memory", "address"}

\* C13: for Mov, Add and Sub, every destination (Register, Argument,
\* ReturnValue) and every kind of source (Register, Argument, ReturnValue,
\* Constant, Symbol), each instruction generate_infix writes has at most
\* one memory operand.
C13_NoMemoryToMemory ==
    (listing # <<>> /\ TheOpcode.op \in {"Mov", "Add", "Sub"}) =>
        \A i \in DOMAIN listing["@f"] :
            ~(InMemory(listing["@f"][i].dst) /\ InMemory(listing["@f"][i].src))

\* The part of C13 the code keeps: a source that is a Register or an
\* Argument goes through rax, and a Constant or a Symbol is no memory.
C13_ExceptReturnValue ==
    (listing # <<>> /\ TheOpcode.op \in {"Mov", "Add", "Sub"}
        /\ TheOpcode.src # ReturnValue) =>
        \A i \in DOMAIN listing["@f"] :
            ~(InMemory(listing["@f"][i].dst) /\ InMemory(listing["@f"][i].src))

\* The source ReturnValue is written as a memory operand of the one
\* instruction: `add qword [rbp - 8], qword [rbp + 32]`.
C13_ReturnValueSource ==
    (listing # <<>> /\ TheOpcode = OpCode("Add", Register(0), ReturnValue)
        /\ bytecode.functions[1].return_type = <<"U64">>) =>
        listing["@f"][2] = Instruction("add", Memory("qword", -8), Memory("qword", 32))

----------------------------------------------------------------------------
(* Claims about comparisons and division.                                  *)

\* The program of SpecArith has run to its exit.
ArithDone == listing # <<>> /\ cpu.exited

\* The type T of the two operands, their values, and the opcode on them.
ArithType == bytecode.functions[1].register_types[1]

ArithLhs == bytecode.functions[1].opcodes[1].src.value

ArithRhs == bytecode.functions[1].opcodes[2].src.value

ArithOpcode == bytecode.functions[1].opcodes[5]

\* What rax held in its second byte before the opcode.
ArithPrior == bytecode.functions[1].opcodes[3].src.value

\* The cell of a register of @main, whose base pointer is 24 bytes below
\* the stack pointer of the start.
MainCell(register_id) ==
    Read(cpu.mem, Boot.rsp - 24
                  + generate_argument(bytecode.functions[1], Register(register_id)).offset)

\* The number a value of the type stands for: two's complement for the
\* signed types.
NumberOf(value, T) ==
    CASE T = <<"S8">> /\ value >= 128 -> value - 256
      [] T = <<"S16">> /\ value >= 32768 -> value - 65536
      [] OTHER -> value

\* The relation a SetIf opcode asks for.
Relation(op, lhs, rhs) ==
    CASE op = "SetIfEqual" -> lhs = rhs
      [] op = "SetIfNotEqual" -> lhs # rhs
      [] op = "SetIfGreater" -> lhs > rhs
      [] op = "SetIfLess" -> lhs < rhs
      [] op = "SetIfGreaterOrEqual" -> lhs >= rhs
      [] op = "SetIfLessOrEqual" -> lhs <= rhs

\* The Bool destination holds 1 exactly when the relation holds.
ComparisonRight ==
    MainCell(2) = IF Relation(ArithOpcode.op, NumberOf(ArithLhs, ArithType),
                              NumberOf(ArithRhs, ArithType))
                  THEN 1 ELSE 0

\* C14: for operands of an unsigned type and all values lhs, rhs of the
\* type, the code emitted for SetIfGreater, SetIfLess, SetIfGreaterOrEqual
\* and SetIfLessOrEqual stores 1 in the Bool destination exactly when the
\* relation holds between lhs and rhs as unsigned numbers, and 0 otherwise;
\* for a signed type, between the two's-complement signed values.
C14_Comparisons ==
    (ArithDone /\ ArithOpcode.op \in {"SetIfGreater", "SetIfLess", "SetIfGreaterOrEqual",
                                      "SetIfLessOrEqual"}) =>
        ComparisonRight

\* The part of C14 the code keeps: the signed types, the unsigned values
\* below the top bit, and equality.
C14_Signed ==
    (ArithDone /\ "lhs" \in DOMAIN ArithOpcode
        /\ \/ ArithType \in {<<"S8">>, <<"S16">>}
           \/ ArithOpcode.op \in {"SetIfEqual", "SetIfNotEqual"}
           \/ \A value \in {ArithLhs, ArithRhs} :
                value < (IF ArithType = <<"U8">> THEN 128 ELSE 32768)
           \/ ArithType \in {<<"U32">>, <<"U64">>}) =>
        ComparisonRight

\* 128 > 1 as U8 values: setg answers 0, as for -128 > 1.
C14_TopBit ==
    (ArithDone /\ ArithOpcode.op = "SetIfGreater" /\ ArithType = <<"U8">>
        /\ ArithLhs = 128 /\ ArithRhs = 1) =>
        MainCell(2) = 0

\* C15: for unsigned operands of every width, all values dst, src of the
\* type with src # 0, and whatever the registers held before, the sequence
\* emitted for Div leaves floor(dst / src) in dst and the sequence emitted
\* for Mod leaves dst mod src in dst.
C15_Division ==
    (ArithDone /\ ArithOpcode.op \in {"Div", "Mod"} /\ ArithRhs # 0
        /\ ArithType \in {<<"U8">>, <<"U16">>, <<"U32">>, <<"U64">>}) =>
        /\ ~cpu.faulted
        /\ MainCell(0) = IF ArithOpcode.op = "Div"
                         THEN ArithLhs \div ArithRhs ELSE ArithLhs % ArithRhs

\* The part of C15 the code keeps: the widths above one byte, and Div of
\* one byte when the second byte of rax was 0.
C15_AboveOneByte ==
    (ArithDone /\ ArithOpcode.op \in {"Div", "Mod"} /\ ArithRhs # 0
        /\ \/ ArithType \in {<<"U16">>, <<"U32">>, <<"U64">>}
           \/ ArithType = <<"U8">> /\ ArithOpcode.op = "Div" /\ ArithPrior = 0) =>
        /\ ~cpu.faulted
        /\ MainCell(0) = IF ArithOpcode.op = "Div"
                         THEN ArithLhs \div ArithRhs ELSE ArithLhs % ArithRhs

\* 7 mod 2 as U8 values: the remainder is in ah and the code stores dl, 0.
C15_ByteRemainder ==
    (ArithDone /\ ArithOpcode.op = "Mod" /\ ArithType = <<"U8">>
        /\ ArithLhs = 7 /\ ArithRhs = 2 /\ ArithPrior = 0) =>
        (~cpu.faulted /\ MainCell(0) = 0)

\* 7 / 1 as U8 values with 3 in ah: the dividend is 775 and the quotient
\* does not fit in al.
C15_ByteDividend ==
    (ArithDone /\ ArithOpcode.op = "Div" /\ ArithType = <<"U8">>
        /\ ArithLhs = 7 /\ ArithRhs = 1 /\ ArithPrior = 768) =>
        cpu.faulted

\* The register and the memory operand of an instruction have one width,
\* and a register used as an address has eight bytes.
WidthsAgree(instruction) ==
    /\ (instruction.dst.kind = "register" /\ instruction.src.kind = "memory") =>
            instruction.dst.width = instruction.src.width
    /\ (instruction.dst.kind = "memory" /\ instruction.src.kind = "register") =>
            instruction.dst.width = instruction.src.width
    /\ \A operand \in {instruction.dst, instruction.src} :
            operand.kind = "address" => operand.base.width = "qword"

\* C16: for every opcode with well-typed operands (one type on both sides
\* of Mov, Add, Sub, Mul, Div, Mod; Deref with src: Ref(T) and dst: T;
\* DerefMov with dst: Ref(T) and src: T; T of one, two, four or eight
\* bytes), each emitted instruction that pairs a register with a memory
\* operand names the register at the width of the operand's keyword, and
\* every register used as an address in `[reg]` has its 64-bit name.
C16_OperandWidths ==
    listing # <<>> => \A i \in DOMAIN listing["@f"] : WidthsAgree(listing["@f"][i])

\* The part of C16 the code keeps: every opcode but DerefMov, and DerefMov
\* through a reference to a type of eight bytes.
C16_ExceptDerefMov ==
    (listing # <<>>
        /\ (TheOpcode.op = "DerefMov" => bytecode.functions[1].return_type = <<"U64">>)) =>
        \A i \in DOMAIN listing["@f"] : WidthsAgree(listing["@f"][i])

\* DerefMov of a U8 register through a Ref(U8) register:
\* `mov al, qword [rbp - 24]`, `mov rbx, byte [rbp - 16]`, `mov [al], rbx`.
C16_DerefMovByte ==
    (listing # <<>> /\ TheOpcode = OpCode("DerefMov", Register(2), Register(1))
        /\ bytecode.functions[1].return_type = <<"U8">>) =>
        SubSeq(listing["@f"], 2, 4) =
            <<Instruction("mov", NasmRegister("rax", <<"U8">>), Memory("qword", -24)),
              Instruction("mov", NasmRegister("rbx", <<"U64">>), Memory("byte", -16)),
              Instruction("mov", Address(NasmRegister("rax", <<"U8">>)),
                          NasmRegister("rbx", <<"U64">>))>>

----------------------------------------------------------------------------
(* Claims about the scope cursor and the opening of a block.               *)

\* parse has returned from a program that is a block: parse_block was
\* called in the scope of the new symbol table.
BlockReturned == machine = Returned /\ string # <<>> /\ string[1] = "{"

\* C17: whenever parse_block or parse_function_definition returns, with a
\* tree or with an error raised anywhere inside it (in the parameter list,
\* the return type, or a statement of the body), the current scope of the
\* symbol table is the scope that was current when it was called.
C17_CursorRestored ==
    BlockReturned => get_scope(last.st) = get_scope(SymbolTableNew)

\* The part of C17 the code keeps: a return with a tree.
C17_OnSuccess ==
    (BlockReturned /\ last.ok) => get_scope(last.st) = get_scope(SymbolTableNew)

\* The error returns leave the cursor where the error was raised: in the
\* block (scope 2) for a statement of it, in the scope of the function
\* (scope 3) for its parameter list and its return type, in the block of its
\* body (scope 4) for a statement of the body.
C17_LeftInside ==
    machine = Returned =>
        /\ string = StatementWithoutSemiColon => (~last.ok /\ get_scope(last.st) = 2)
        /\ string = OneBareParameter => (~last.ok /\ get_scope(last.st) = 3)
        /\ string = UnknownReturnType => (~last.ok /\ get_scope(last.st) = 3)
        /\ string = BlockWithoutAnnotation => (~last.ok /\ get_scope(last.st) = 4)

\* C18: wherever a block is due (the body of `fn`, of `if`, of `while`,
\* the body after `else`), a token other than `{` at that place makes the
\* parse fail with UnexpectedToken carrying that token, and the end of the
\* input with its EOF form; no other token is consumed in place of `{`.
C18_BlockOpens ==
    machine = Returned =>
        \A program \in BlocklessPrograms :
            string = program.source =>
                /\ ~last.ok
                /\ last.err.e = "UnexpectedToken"
                /\ last.err.some = (program.token # <<>>)
                /\ last.err.token.text = program.token

\* What the code does: the token at the place of `{` is consumed whatever
\* it is, and with the `}` after it the parse returns a tree whose block at
\* that place has no statement.
C18_Swallowed ==
    machine = Returned =>
        \A program \in BlocklessPrograms :
            (string = program.source /\ program.token # <<>>) =>
                /\ last.ok
                /\ last.c = Len(string) + 1

\* The part of C18 the code keeps: the end of the input at the place of `{`.
C18_AtEnd ==
    machine = Returned =>
        \A program \in BlocklessPrograms :
            (string = program.source /\ program.token = <<>>) =>
                (~last.ok /\ last.err = UnexpectedEOF)

\* `while 1 2 }` is parsed as a loop with an empty body.
C18_WhileWithoutBrace ==
    (machine = Returned /\ string = <<"w", "h", "i", "l", "e", " ", "1", " ", "2", " ", "}">>) =>
        /\ last.ok
        /\ last.val.kind = "WhileLoop"
        /\ last.val.body = Block(<<>>, 2)

----------------------------------------------------------------------------
(* Claims about calls in expressions.                                      *)

\* The node of an identifier, and the operator tokens `-` and `*`.
Ident(name) == Node(Token(<<name>>, Kind("Ident")))

Minus == Token(<<"-">>, Kind("Sub"))

Star == Token(<<"*">>, Kind("Mul"))

\* parse_expr_bp has returned a tree.
BpReturned == machine.pc = "returned" /\ last.ok

\* The callee of every Call of the tree is a primary or a Call.
RECURSIVE CalleesArePrimary(_)
CalleesArePrimary(ast) ==
    /\ ast.kind = "Call" => ast.lhs.kind \in {"Node", "Call"}
    /\ \A i \in 1..Len(Children(ast)) : CalleesArePrimary(Children(ast)[i])

\* The number of Call nodes of the tree.
RECURSIVE Calls(_)
Calls(ast) ==
    (IF ast.kind = "Call" THEN 1 ELSE 0)
    + (IF Children(ast) = <<>> THEN 0
       ELSE Calls(Children(ast)[1])
            + (IF Len(Children(ast)) = 1 THEN 0 ELSE Calls(Children(ast)[2])))

\* The number of `(` among the tokens.
Opened(ts) == Cardinality({i \in 1..Len(ts) : ts[i].kind.k = "LParen"})

\* The call is applied greedily: every `(` of the part of the source that
\* was consumed made a Call, and the token left, if any, is no `(`.
Greedy ==
    /\ Calls(last.val) = Opened(LexAll(SubSeq(string, 1, last.c - 1), 1, <<>>).tokens)
    /\ peek_token(string, last.c, last.st).val.kind.k # "LParen"

\* What the claim says of `-f(x)` and `f(x)(y)`.
PrefixAndCallExamples ==
    /\ string = <<"-", "f", "(", "x", ")">> =>
            /\ last.ok
            /\ last.c = Len(string) + 1
            /\ last.val = Prefix(Minus, Call(Ident("f"), <<Ident("x")>>))
    /\ string = <<"f", "(", "x", ")", "(", "y", ")">> =>
            /\ last.ok
            /\ last.c = Len(string) + 1
            /\ last.val = Call(Call(Ident("f"), <<Ident("x")>>), <<Ident("y")>>)

\* `a * f(x)` parsed to its end as Infix(*, a, Call(f, [x])).
InfixExample ==
    /\ last.ok
    /\ last.c = Len(string) + 1
    /\ last.val = Infix(Star, Ident("a"), Call(Ident("f"), <<Ident("x")>>))

\* C19 as stated: for any minimum binding power, `-f(x)` parses as
\* Prefix(-, Call(f, [x])), `a * f(x)` as Infix(*, a, Call(f, [x])) and
\* `f(x)(y)` as Call(Call(f, [x]), [y]); and in every parsed tree the
\* callee of a Call is a primary or another Call.
C19_AnyMinimum ==
    machine.pc = "returned" =>
        /\ PrefixAndCallExamples
        /\ string = <<"a", " ", "*", " ", "f", "(", "x", ")">> => InfixExample
        /\ last.ok => (CalleesArePrimary(last.val) /\ Greedy)

\* C19 with the minimum binding power of `a * f(x)` bounded: for any
\* minimum binding power, `-f(x)` parses as Prefix(-, Call(f, [x])) and
\* `f(x)(y)` as Call(Call(f, [x]), [y]); `a * f(x)` parses as
\* Infix(*, a, Call(f, [x])) for a minimum binding power up to 5, the left
\* binding power of `*`, and as `a` alone above it; in every parsed tree the
\* callee of a Call is a primary or another Call, every `(` consumed made a
\* Call, and no `(` is left unapplied.
C19_CallBindsTightest ==
    machine.pc = "returned" =>
        /\ PrefixAndCallExamples
        /\ string = <<"a", " ", "*", " ", "f", "(", "x", ")">> =>
                IF machine.min_bp <= infix_bp("Mul")[1]
                THEN InfixExample
                ELSE last.ok /\ last.val = Ident("a") /\ last.c = 2
        /\ last.ok => (CalleesArePrimary(last.val) /\ Greedy)

\* `-f(x)` parsed from the binding power of a prefix operator.
C19_Witness ==
    /\ machine = [pc |-> "returned", min_bp |-> 7]
    /\ string = <<"-", "f", "(", "x", ")">>
    /\ last.ok
    /\ last.val = Prefix(Minus, Call(Ident("f"), <<Ident("x")>>))

\* `a * f(x)` parsed from 0, and from the binding power of a prefix operator.
C19_WitnessInfix ==
    /\ machine = [pc |-> "returned", min_bp |-> 0]
    /\ string = <<"a", " ", "*", " ", "f", "(", "x", ")">>
    /\ InfixExample

C19_WitnessStopped ==
    /\ machine = [pc |-> "returned", min_bp |-> 7]
    /\ string = <<"a", " ", "*", " ", "f", "(", "x", ")">>
    /\ last.ok
    /\ last.val = Ident("a")

====
